---------------------------- MODULE Spec2Model ----------------------------
(***************************************************************************)
(* Financial Decision Simulator engine (financial-decision-sim/sim.js):    *)
(* seeded RNG, state model, unlock ledger, card catalog, weighted events,  *)
(* the year step and the two run drivers (runSimulation, createGame), and  *)
(* the page that plays a game through its buttons (part_009).              *)
(*                                                                         *)
(* Number representation.                                                  *)
(*   - 32-bit unsigned words of the RNG are pairs <<hi, lo>> of 16-bit     *)
(*     halves, so that every intermediate value stays inside the integers  *)
(*     the model checker can hold; all word operations are modulo 2^32.    *)
(*   - every Number of the source that can hold a fraction (cash,          *)
(*     invested, debt, income, expenses, medicalDebt, risk, discipline,    *)
(*     draw weights, rates, the draws of the RNG) is an IEEE-754 double,   *)
(*     and +, -, *, /, Math.floor, Math.round and the comparisons on it    *)
(*     round as the source's do (DAdd, DSub, DMul, DDivInt, DFloor,        *)
(*     Rounded, DLt, DLe).  Amounts are in dollars, as in the source.      *)
(*   - stress, burnout, the levels and counters are whole numbers and are  *)
(*     held as integers; the snapshot's rounded amounts are integers too.  *)
(***************************************************************************)
EXTENDS Integers, Sequences, FiniteSets, TLC

---------------------------------------------------------------------------
(* Generic arithmetic helpers *)

\* Sequencing:  Let(e, LAMBDA x : body)  is  "const x = e; body".  The value e
\* is computed first, once, and then named x in body, in program order.
Let(v, F(_)) == CASE v = v -> F(v)

Min(a, b) == IF a <= b THEN a ELSE b
Max(a, b) == IF a >= b THEN a ELSE b

W16 == 2 ^ 16


---------------------------------------------------------------------------
---------------------------------------------------------------------------
(* IEEE-754 binary64 arithmetic: the Number type of the source *)

\* A double is <<s, e, h, l>>: sign s in {-1, 0, 1}, and for a number other
\* than zero the 53-bit significand M = h * 2^26 + l with 2^26 <= h < 2^27,
\* 0 <= l < 2^26, and the value  s * M * 2^(e - 52).  Zero is DZero.
\* Every operation computes the exact result and rounds it to nearest, ties to
\* even, as the hardware does.  Infinities, NaN, subnormals and the sign of
\* zero do not occur in the amounts of the simulator and are left out.
\* An operation is a function of the module (Sum, Product, ...), so that its
\* body is evaluated on its arguments alone, and an operator (DAdd, DMul,
\* ...) that applies it.
Double == Seq(Int)
DZero == <<0, 0, 0, 0>>
DOne == <<1, 0, 2 ^ 26, 0>>
DHalf == <<1, -1, 2 ^ 26, 0>>

\* the number of bits of n, 0 <= n < 2^31
RECURSIVE BitLen(_)
BitLen(n) ==
    IF n >= 16 THEN 4 + BitLen(n \div 16)
    ELSE IF n >= 4 THEN (IF n >= 8 THEN 4 ELSE 3)
    ELSE IF n >= 2 THEN 2 ELSE n

\* g with its lowest bit set when bits below it were lost
Sticky(g, lost) == IF lost /\ g % 2 = 0 THEN g + 1 ELSE g

\* The double of q = <<s, e, h, g>>: sign s, exponent e and the exact
\* significand h * 2^26 + g / 8, 2^26 <= h < 2^27, where g < 2^29 holds the
\* low 26 bits of the significand and three more: guard, round and sticky.
\* Round to nearest, ties to even.
Round(q) ==
    IF q[4] % 8 > 4 \/ q[4] % 16 = 12
    THEN IF (q[4] \div 8) + 1 < 2 ^ 26 THEN <<q[1], q[2], q[3], (q[4] \div 8) + 1>>
         ELSE IF q[3] + 1 < 2 ^ 27 THEN <<q[1], q[2], q[3] + 1, 0>>
         ELSE <<q[1], q[2] + 1, 2 ^ 26, 0>>
    ELSE <<q[1], q[2], q[3], q[4] \div 8>>

\* the double of sign s and magnitude a > 0 of b bits
Scaled(s, a, b) ==
    IF b <= 27 THEN <<s, b - 1, a * (2 ^ (27 - b)), 0>>
    ELSE <<s, b - 1, a \div (2 ^ (b - 27)), (a % (2 ^ (b - 27))) * (2 ^ (53 - b))>>

\* the Number of an integer n, |n| < 2^31: a whole number of dollars, a count
\* or a level
IntToDouble ==
    [n \in Int |-> IF n = 0 THEN DZero
                   ELSE IF n < 0 THEN Scaled(-1, -n, BitLen(-n))
                   ELSE Scaled(1, n, BitLen(n))]
USD(n) == IntToDouble[n]

\* the double of (hi * 2^16 + lo) / 2^32 for a half hi # 0 of b bits, and of
\* lo / 2^32 for a half lo # 0 of b bits
WordScaled(hi, lo, b) ==
    IF b <= 11 THEN <<1, b - 17, (hi * (2 ^ (27 - b))) + (lo * (2 ^ (11 - b))), 0>>
    ELSE <<1, b - 17, (hi * (2 ^ (27 - b))) + (lo \div (2 ^ (b - 11))),
           (lo % (2 ^ (b - 11))) * (2 ^ (37 - b))>>
LowScaled(lo, b) == <<1, b - 33, lo * (2 ^ (27 - b)), 0>>

\* u / 4294967296 for the 32-bit word u = <<hi, lo>>: exact, a word has 32 bits
WordToDouble ==
    [u \in Seq(Int) |-> IF u[1] # 0 THEN WordScaled(u[1], u[2], BitLen(u[1]))
                        ELSE IF u[2] # 0 THEN LowScaled(u[2], BitLen(u[2]))
                        ELSE DZero]
FromWord(u) == WordToDouble[u]

\* -x and Math.abs(x)
DNeg(x) == <<-x[1], x[2], x[3], x[4]>>
DAbs(x) == <<x[1] * x[1], x[2], x[3], x[4]>>

\* |a| < |b| for numbers other than zero
MagLt(a, b) ==
    \/ a[2] < b[2]
    \/ a[2] = b[2] /\ (a[3] < b[3] \/ (a[3] = b[3] /\ a[4] < b[4]))

\* x < y, x <= y, x > y, x >= y
Less ==
    [x \in Double, y \in Double |->
        IF x[1] # y[1] THEN x[1] < y[1]
        ELSE IF x[1] = 1 THEN MagLt(x, y)
        ELSE x[1] = -1 /\ MagLt(y, x)]
DLt(x, y) == Less[x, y]
DLe(x, y) == ~Less[y, x]
DGt(x, y) == Less[y, x]
DGe(x, y) == ~Less[x, y]

\* Math.min(x, y), Math.max(x, y) and clamp(v, min, max)
DMin(x, y) == IF DLt(y, x) THEN y ELSE x
DMax(x, y) == IF DLt(x, y) THEN y ELSE x
DClamp(v, min, max) == DMax(min, DMin(max, v))

\* the 14-bit limbs of the significand of a, lowest first
Limbs(a) ==
    <<a[4] % (2 ^ 14), (a[4] \div (2 ^ 14)) + ((a[3] % 4) * 4096),
      (a[3] \div 4) % (2 ^ 14), a[3] \div W16>>

\* the product of two significands as eight 14-bit limbs, lowest first: the
\* long multiplication, a column and its carry staying below 2^31
MulLimbs(a, b) ==
    LET t1 == a[1] * b[1]
        t2 == (a[1] * b[2]) + (a[2] * b[1]) + (t1 \div (2 ^ 14))
        t3 == (a[1] * b[3]) + (a[2] * b[2]) + (a[3] * b[1]) + (t2 \div (2 ^ 14))
        t4 == (a[1] * b[4]) + (a[2] * b[3]) + (a[3] * b[2]) + (a[4] * b[1])
                + (t3 \div (2 ^ 14))
        t5 == (a[2] * b[4]) + (a[3] * b[3]) + (a[4] * b[2]) + (t4 \div (2 ^ 14))
        t6 == (a[3] * b[4]) + (a[4] * b[3]) + (t5 \div (2 ^ 14))
        t7 == (a[4] * b[4]) + (t6 \div (2 ^ 14))
    IN  <<t1 % (2 ^ 14), t2 % (2 ^ 14), t3 % (2 ^ 14), t4 % (2 ^ 14), t5 % (2 ^ 14),
          t6 % (2 ^ 14), t7 % (2 ^ 14), t7 \div (2 ^ 14)>>

\* the double of sign s and the 106-bit product c of two significands, whose
\* leading bit is in c[8] at place 7 + k: cut to 53 bits and rounded
MulCut(s, e, c, k) ==
    Round(<<s, e + k,
            (c[8] * (2 ^ (20 - k))) + (c[7] * (2 ^ (6 - k))) + (c[6] \div (2 ^ (8 + k))),
            Sticky(((c[6] % (2 ^ (8 + k))) * (2 ^ (21 - k))) + (c[5] * (2 ^ (7 - k)))
                      + ((c[4] \div (2 ^ (8 + k))) * 2),
                   c[1] # 0 \/ c[2] # 0 \/ c[3] # 0 \/ c[4] % (2 ^ (8 + k)) # 0)>>)
MulRound(s, e, c) == MulCut(s, e, c, IF c[8] >= 128 THEN 1 ELSE 0)

\* x * y
Product ==
    [x \in Double, y \in Double |->
        IF x[1] = 0 \/ y[1] = 0 THEN DZero
        ELSE MulRound(x[1] * y[1], x[2] + y[2], MulLimbs(Limbs(x), Limbs(y)))]
DMul(x, y) == Product[x, y]

\* <<h, g>> shifted right by d bits, the bits shifted out kept as sticky
ShiftRight(h, g, d) ==
    IF d = 0 THEN <<h, g>>
    ELSE IF d < 29
    THEN <<h \div (2 ^ d),
           Sticky((g \div (2 ^ d)) + ((h % (2 ^ d)) * (2 ^ (29 - d))), g % (2 ^ d) # 0)>>
    ELSE IF d < 56
    THEN <<0, Sticky(h \div (2 ^ (d - 29)), h % (2 ^ (d - 29)) # 0 \/ g # 0)>>
    ELSE <<0, 1>>

\* <<s, e, h, g>> with the significand h * 2^29 + g, 0 < h < 2^26, moved left
\* by d = 27 - BitLen(h) bits
ShiftedLeft(s, e, h, g, d) ==
    <<s, e - d, (h * (2 ^ d)) + (g \div (2 ^ (29 - d))), (g % (2 ^ (29 - d))) * (2 ^ d)>>

\* <<s, e, h, g>> for the significand g > 0 of n bits, its leading bit moved
\* up to the top of h
LowOnly(s, e, g, n) ==
    IF n <= 27 THEN <<s, e - (56 - n), g * (2 ^ (27 - n)), 0>>
    ELSE <<s, e - (56 - n), g \div (2 ^ (n - 27)), (g % (2 ^ (n - 27))) * (2 ^ (56 - n))>>

\* the double of sign s and the exact value (h * 2^29 + g) * 2^(e - 55),
\* 0 <= h < 2^28, 0 <= g < 2^29: the leading bit is moved to its place and
\* the value rounded
Normalise(s, e, h, g) ==
    IF h = 0 /\ g = 0 THEN DZero
    ELSE Round(IF h >= 2 ^ 27
               THEN <<s, e + 1, h \div 2, Sticky((g \div 2) + ((h % 2) * (2 ^ 28)), g % 2 = 1)>>
               ELSE IF h >= 2 ^ 26 THEN <<s, e, h, g>>
               ELSE IF h > 0 THEN ShiftedLeft(s, e, h, g, 27 - BitLen(h))
               ELSE LowOnly(s, e, g, BitLen(g)))

\* a + b for |a| >= |b| > 0, b shifted to the exponent of a as t = <<h, g>>
\* with three bits (guard, round, sticky) kept below the significand: t is
\* added to a or, the signs differing, taken from it
AddShifted(a, b, t) ==
    LET g == (a[4] * 8) + (a[1] * b[1] * t[2])
    IN  Normalise(a[1], a[2],
                  a[3] + (a[1] * b[1] * t[1]) + (IF g < 0 THEN -1 ELSE g \div (2 ^ 29)),
                  IF g < 0 THEN g + (2 ^ 29) ELSE g % (2 ^ 29))
AddOrdered(a, b) == AddShifted(a, b, ShiftRight(b[3], b[4] * 8, a[2] - b[2]))

\* x + y, x - y
Sum ==
    [x \in Double, y \in Double |->
        IF y[1] = 0 THEN x
        ELSE IF x[1] = 0 THEN y
        ELSE IF MagLt(x, y) THEN AddOrdered(y, x)
        ELSE AddOrdered(x, y)]
DAdd(x, y) == Sum[x, y]
DSub(x, y) == Sum[x, DNeg(y)]

\* x / k after the long division of the significand, 13 bits at a time: the
\* quotient of the high word has b bits, q is the quotient of the next 13
\* bits, t of the 26 bits after them (13 of them below the significand), and
\* lost tells of a remainder
DivCut(x, k, b, q, t, lost) ==
    Round(<<x[1], x[2] + b - 27,
            ((x[3] \div k) * (2 ^ (27 - b))) + (q \div (2 ^ (b - 14))),
            Sticky(((q % (2 ^ (b - 14))) * (2 ^ (43 - b))) + (t \div (2 ^ (b - 17))),
                   t % (2 ^ (b - 17)) # 0 \/ lost)>>)

\* x / k for a whole number k, 1 <= k <= 1024
Quotient ==
    [x \in Double, k \in Int |->
        LET n2 == ((x[3] % k) * (2 ^ 13)) + (x[4] \div (2 ^ 13))
            n3 == ((n2 % k) * (2 ^ 13)) + (x[4] % (2 ^ 13))
            n4 == (n3 % k) * (2 ^ 13)
        IN  IF x[1] = 0 THEN DZero
            ELSE DivCut(x, k, BitLen(x[3] \div k), n2 \div k,
                        ((n3 \div k) * (2 ^ 13)) + (n4 \div k), n4 % k # 0)]
DDivInt(x, k) == Quotient[x, k]

\* x with its fraction bits cleared, 0 <= x[2] < 52: x cut towards zero
Truncated(x) ==
    IF x[2] >= 26 THEN <<x[1], x[2], x[3], x[4] - (x[4] % (2 ^ (52 - x[2])))>>
    ELSE <<x[1], x[2], x[3] - (x[3] % (2 ^ (26 - x[2]))), 0>>

\* Math.floor(x), t being x cut towards zero
FloorFrom(x, t) == IF x[1] = 1 \/ t = x THEN t ELSE DSub(t, DOne)
Floor ==
    [x \in Double |->
        IF x[1] = 0 \/ x[2] >= 52 THEN x
        ELSE IF x[2] < 0 THEN (IF x[1] = 1 THEN DZero ELSE DNeg(DOne))
        ELSE FloorFrom(x, Truncated(x))]
DFloor(x) == Floor[x]

\* the integer a whole Number holds, |a| < 2^31
ToInt(a) ==
    IF a[1] = 0 THEN 0
    ELSE IF a[2] <= 26 THEN a[1] * (a[3] \div (2 ^ (26 - a[2])))
    ELSE a[1] * ((a[3] * (2 ^ (a[2] - 26))) + (a[4] \div (2 ^ (52 - a[2]))))

\* Math.round(x), the nearest whole number, a tie going up, f being
\* Math.floor(x); a whole number with |x| < 2^31 and held as an integer
RoundFrom(x, f) == ToInt(f) + (IF DLe(DHalf, DSub(x, f)) THEN 1 ELSE 0)
Nearest == [x \in Double |-> RoundFrom(x, Floor[x])]
Rounded(x) == Nearest[x]

\* the decimal literals of the source, by their text: the double nearest to
\* the decimal
N0_01 == <<1, -7, 85899345, 61740155>>
N0_012 == <<1, -7, 103079215, 6979322>>
N0_015 == <<1, -7, 128849018, 59055800>>
N0_02 == <<1, -6, 85899345, 61740155>>
N0_03 == <<1, -6, 128849018, 59055800>>
N0_04 == <<1, -5, 85899345, 61740155>>
N0_05 == <<1, -5, 107374182, 26843546>>
N0_06 == <<1, -5, 128849018, 59055800>>
N0_07 == <<1, -4, 75161927, 45634028>>
N0_08 == <<1, -4, 85899345, 61740155>>
N0_10 == <<1, -4, 107374182, 26843546>>
N0_18 == <<1, -3, 96636764, 10737418>>
N0_22 == <<1, -3, 118111600, 42949673>>
N0_25 == <<1, -2, 67108864, 0>>
N0_28 == <<1, -2, 75161927, 45634028>>
N0_30 == <<1, -2, 80530636, 53687091>>
N0_35 == <<1, -2, 93952409, 40265318>>
N0_4 == <<1, -2, 107374182, 26843546>>
N0_45 == <<1, -2, 120795955, 13421773>>
N0_5 == <<1, -1, 67108864, 0>>
N0_55 == <<1, -1, 73819750, 26843546>>
N0_6 == <<1, -1, 80530636, 53687091>>
N0_65 == <<1, -1, 87241523, 13421773>>
N0_66 == <<1, -1, 88583700, 32212255>>
N0_75 == <<1, -1, 100663296, 0>>
N0_9 == <<1, -1, 120795955, 13421773>>
N0_90 == <<1, -1, 120795955, 13421773>>
N0_95 == <<1, -1, 127506841, 40265318>>
N1_03 == <<1, 0, 69122129, 61740155>>
N1_04 == <<1, 0, 69793218, 37580964>>
N1_05 == <<1, 0, 70464307, 13421773>>
N1_08 == <<1, 0, 72477573, 8053064>>
N1_1 == <<1, 0, 73819750, 26843546>>
N1_15 == <<1, 0, 77175193, 40265318>>
N1_5 == <<1, 0, 100663296, 0>>
N1_6 == <<1, 0, 107374182, 26843546>>
N1_7 == <<1, 0, 114085068, 53687091>>
N1_8 == <<1, 0, 120795955, 13421773>>
N2_2 == <<1, 1, 73819750, 26843546>>
---------------------------------------------------------------------------
(* 32-bit words *)

\* a ^ b for bytes, as a table
Xor8 ==
    LET RECURSIVE XorBits(_, _, _)
        XorBits(a, b, n) ==
            IF n = 0 THEN 0
            ELSE (((a % 2) + (b % 2)) % 2) + 2 * XorBits(a \div 2, b \div 2, n - 1)
    IN  [a \in 0..255 |-> [b \in 0..255 |-> XorBits(a, b, 8)]]

\* a ^ b for 16-bit halves and for words
Xor16(a, b) == (Xor8[a \div 256][b \div 256] * 256) + Xor8[a % 256][b % 256]
XorU32(x, y) == <<Xor16(x[1], y[1]), Xor16(x[2], y[2])>>

\* x | c for a small constant c:  a | b = (a + b + (a ^ b)) / 2
OrLow(x, c) == <<x[1], (x[2] + c + Xor16(x[2], c)) \div 2>>

\* x >>> n for 0 < n < 16
ShrU32(x, n) ==
    LET p == 2 ^ n
        q == 2 ^ (16 - n)
    IN  <<x[1] \div p, ((x[1] % p) * q) + (x[2] \div p)>>

AddU32(x, y) ==
    LET lo == x[2] + y[2]
        hi == x[1] + y[1] + (lo \div W16)
    IN  <<hi % W16, lo % W16>>

\* Math.imul(x, y): low 32 bits of the product
imul(x, y) ==
    LET \* full 32-bit product of two 16-bit halves, as <<hi, lo>>
        Mul16(a, b) ==
            LET P == (a % 256) * b
                Q == (a \div 256) * b
                m == P + ((Q % 256) * 256)
            IN  <<(Q \div 256) + (m \div W16), m % W16>>
    IN  Let(Mul16(x[2], y[2]), LAMBDA ll :
            <<(ll[1] + Mul16(x[1], y[2])[2] + Mul16(x[2], y[1])[2]) % W16, ll[2]>>)

---------------------------------------------------------------------------
(* 1) Seeded RNG (Mulberry32) *)

FNV_OFFSET == <<33052, 40389>>     \* 2166136261
FNV_PRIME  == <<256, 403>>         \* 16777619
MULBERRY_INC == <<27947, 31221>>   \* 0x6D2B79F5

ToU32(n) == <<(n \div W16) % W16, n % W16>>

RECURSIVE hashStringToInt(_)
hashStringToInt(str) ==
    IF str = <<>> THEN FNV_OFFSET
    ELSE Let(hashStringToInt(SubSeq(str, 1, Len(str) - 1)), LAMBDA h :
             imul(XorU32(h, <<0, str[Len(str)]>>), FNV_PRIME))

\* seeds are [str |-> <<char codes>>] or [num |-> n]
createRng(seed) ==
    IF "str" \in DOMAIN seed THEN hashStringToInt(seed.str) ELSE ToU32(seed.num)

\* one call of the closure rng(): the new internal word s, the output word u
\* and the returned Number r = u / 4294967296
rngCall(s) ==
    Let(AddU32(s, MULBERRY_INC), LAMBDA s1 :
    Let(imul(XorU32(s1, ShrU32(s1, 15)), OrLow(s1, 1)), LAMBDA t1 :
    Let(XorU32(t1, AddU32(t1, imul(XorU32(t1, ShrU32(t1, 7)), OrLow(t1, 61)))), LAMBDA t2 :
    Let(XorU32(t2, ShrU32(t2, 14)), LAMBDA u :
        [s |-> s1, u |-> u, r |-> FromWord(u)]))))

\* n successive calls of rng(): <<[s, u, r], ...>>, the k-th entry holding the
\* k-th output and the internal word after it
RECURSIVE rngCalls(_, _)
rngCalls(s, n) ==
    IF n = 0 THEN <<>>
    ELSE Let(rngCall(s), LAMBDA d : <<d>> \o rngCalls(d.s, n - 1))


---------------------------------------------------------------------------
(* 2) State + helpers *)

\* variant: the ceiling is not enforced
clamp_noCeiling(v, min, max) == Max(min, v)
clamp(v, min, max) == Max(min, Min(max, v))

addLog(state, entry) == [state EXCEPT !.log = Append(@, entry)]

getFlag(state, key, fallback) ==
    IF key \in DOMAIN state.flags THEN state.flags[key] ELSE fallback

\* runMeta: null  (the ledger is created by ensureRunMeta).  A ledger holds
\* unlocked and exhausted as Sets and cooldowns as a Map (a function from ids
\* to counters); `plain` names the fields that are held in plain serializable
\* form instead: an array of ids, or an object given by its entries <<id, n>>
NullRunMeta ==
    [present |-> FALSE, plain |-> {}, unlocked |-> {}, exhausted |-> {}, cooldowns |-> <<>>]

\* the defaults of the destructuring in createInitialState
DefaultConfig ==
    [year |-> 1, cash |-> USD(8000), invested |-> USD(0), debt |-> USD(12000),
     income |-> USD(52000), expenses |-> USD(36000), stress |-> 25, risk |-> N0_45,
     discipline |-> N0_5, burnout |-> 0, rentalUnits |-> 0, sideHustleLevel |-> 0]

\* config: a record with any subset of the fields of DefaultConfig
createInitialState(config) ==
    LET f(k) == IF k \in DOMAIN config THEN config[k] ELSE DefaultConfig[k]
    IN  [year |-> f("year"), cash |-> f("cash"), invested |-> f("invested"),
         debt |-> f("debt"), income |-> f("income"), expenses |-> f("expenses"),
         stress |-> f("stress"), risk |-> f("risk"), discipline |-> f("discipline"),
         burnout |-> f("burnout"), rentalUnits |-> f("rentalUnits"),
         sideHustleLevel |-> f("sideHustleLevel"),
         flags |-> [laidOff |-> FALSE, medicalDebt |-> USD(0), emergencyFundBuff |-> 0,
                    autoInvest |-> 0, refiLevel |-> 0, insuranceLevel |-> 0,
                    regretDrag |-> 0, careerMomentum |-> 0, propertyExposure |-> 0,
                    businessLevel |-> 0],
         runMeta |-> NullRunMeta,
         history |-> <<>>,
         log |-> <<>>]

\* variant: the rental equity is left out
netWorth_noRentalEquity(state) ==
    LET medicalDebt == IF "flags" \in DOMAIN state /\ "medicalDebt" \in DOMAIN state.flags
                       THEN state.flags.medicalDebt ELSE USD(0)
    IN  DSub(DSub(DAdd(state.cash, state.invested), state.debt), medicalDebt)
\* (state.rentalUnits || 0) and (state.flags?.medicalDebt || 0): a missing
\* field counts as 0
netWorth(state) ==
    LET rentalEquity == USD((IF "rentalUnits" \in DOMAIN state THEN state.rentalUnits ELSE 0)
                                * 15000)
        medicalDebt == IF "flags" \in DOMAIN state /\ "medicalDebt" \in DOMAIN state.flags
                       THEN state.flags.medicalDebt ELSE USD(0)
    IN  DSub(DSub(DAdd(DAdd(state.cash, state.invested), rentalEquity), state.debt),
             medicalDebt)

---------------------------------------------------------------------------
(* 3) Run meta (unlock / exhaust / cooldown ledger) *)

\* new Set(array)
SetOfArray(arr) == {arr[k] : k \in 1..Len(arr)}

\* new Map(Object.entries(obj)) for the entries <<id, n>> of obj: of two
\* entries with one key the later one stays
MapOfEntries(entries) ==
    [id \in {entries[k][1] : k \in 1..Len(entries)} |->
        entries[CHOOSE k \in 1..Len(entries) :
                    /\ entries[k][1] = id
                    /\ \A j \in (k + 1)..Len(entries) : entries[j][1] # id][2]]

\* the ledger ensureRunMeta starts from: the present one, or a fresh one
ledgerOrFresh(state) ==
    IF state.runMeta.present THEN state.runMeta
    ELSE [present |-> TRUE, plain |-> {}, unlocked |-> {}, exhausted |-> {},
          cooldowns |-> <<>>]

\* variant: a field that arrives in plain form is replaced by an empty one
ensureRunMeta_resetPlain(state) ==
    LET m == ledgerOrFresh(state)
    IN  [state EXCEPT !.runMeta =
            [present |-> TRUE, plain |-> {},
             unlocked |-> IF "unlocked" \in m.plain THEN {} ELSE m.unlocked,
             exhausted |-> IF "exhausted" \in m.plain THEN {} ELSE m.exhausted,
             cooldowns |-> IF "cooldowns" \in m.plain THEN <<>> ELSE m.cooldowns]]
\* attaches the ledger if absent and normalizes every field that is not a
\* Set / Map
ensureRunMeta(state) ==
    LET m == ledgerOrFresh(state)
    IN  [state EXCEPT !.runMeta =
            [present |-> TRUE, plain |-> {},
             unlocked |-> IF "unlocked" \in m.plain THEN SetOfArray(m.unlocked)
                          ELSE m.unlocked,
             exhausted |-> IF "exhausted" \in m.plain THEN SetOfArray(m.exhausted)
                           ELSE m.exhausted,
             cooldowns |-> IF "cooldowns" \in m.plain THEN MapOfEntries(m.cooldowns)
                           ELSE m.cooldowns]]

\* variant: an entry is already dropped when its counter reaches one
tickEntries_dropAtOne(cooldowns) ==
    [id \in {i \in DOMAIN cooldowns : cooldowns[i] - 1 > 1} |-> cooldowns[id] - 1]
\* the loop body of tickCooldowns over all entries at once
tickEntries(cooldowns) ==
    [id \in {i \in DOMAIN cooldowns : cooldowns[i] - 1 > 0} |-> cooldowns[id] - 1]

tickCooldowns(state) ==
    LET s1 == ensureRunMeta(state)
    IN  [s1 EXCEPT !.runMeta.cooldowns = tickEntries(@)]

unlockCards(state, ids) ==
    LET s1 == ensureRunMeta(state)
    IN  [s1 EXCEPT !.runMeta.unlocked = @ \cup ids]

\* variant: the counter starts one above the card's cooldownYears
setCooldown_oneMore(cooldowns, id, yrs) ==
    [i \in DOMAIN cooldowns \cup {id} |-> IF i = id THEN yrs + 1 ELSE cooldowns[i]]
\* cooldowns.set(id, yrs)
setCooldown(cooldowns, id, yrs) ==
    [i \in DOMAIN cooldowns \cup {id} |-> IF i = id THEN yrs ELSE cooldowns[i]]


---------------------------------------------------------------------------
(* 4) Cards (pool + draw) *)

Card(id, name, type, rarity, tags, cooldownYears, exhaust) ==
    [id |-> id, name |-> name, type |-> type, rarity |-> rarity, tags |-> tags,
     cooldownYears |-> cooldownYears, exhaust |-> exhaust]

\* the catalog, in source order; cooldownYears 0 = no cooldownYears property
CARDS ==
    << Card("index_investing", "Index Investing", "money", "common",
            {"investing", "compounding"}, 0, FALSE),
       Card("pay_down_debt", "Pay Down Debt", "money", "common",
            {"debt", "stability"}, 0, FALSE),
       Card("build_emergency_fund", "Build Emergency Fund", "defense", "common",
            {"stability", "defense"}, 0, FALSE),
       Card("reduce_lifestyle", "Reduce Lifestyle", "lifestyle", "common",
            {"expenses", "discipline", "stability"}, 0, FALSE),
       Card("negotiate_bills", "Negotiate Bills", "lifestyle", "common",
            {"expenses", "defense"}, 0, FALSE),
       Card("skill_sprint", "Skill Sprint", "career", "common",
            {"career", "growth", "stress"}, 0, FALSE),
       Card("side_hustle", "Side Hustle", "career", "common",
            {"hustle", "income", "burnout"}, 0, FALSE),
       Card("automate_savings", "Automate Savings", "money", "common",
            {"investing", "system", "discipline"}, 0, FALSE),
       Card("overtime_push", "Overtime Push", "career", "common",
            {"income", "stress", "burnout"}, 1, FALSE),
       Card("do_nothing", "Do Nothing", "lifestyle", "common",
            {"recovery", "stability"}, 0, FALSE),
       Card("career_move", "Career Move", "career", "uncommon",
            {"income", "volatility"}, 2, FALSE),
       Card("debt_refi", "Debt Refi", "money", "uncommon",
            {"debt", "stability"}, 3, FALSE),
       Card("start_business", "Start Business", "career", "uncommon",
            {"income", "high-upside", "burnout"}, 2, FALSE),
       Card("buy_rental", "Buy Rental", "ownership", "uncommon",
            {"ownership", "leverage", "income"}, 2, FALSE),
       Card("house_hack", "House Hack", "ownership", "uncommon",
            {"ownership", "stability", "income"}, 2, FALSE),
       Card("insurance_upgrade", "Insurance Upgrade", "defense", "uncommon",
            {"defense", "medical", "stability"}, 3, FALSE),
       Card("panic_sell", "Panic Sell", "wildcard", "rare",
            {"investing", "fear", "cash"}, 0, TRUE),
       Card("windfall_opportunity", "Windfall Opportunity", "wildcard", "rare",
            {"luck", "cash", "momentum"}, 0, TRUE) >>

CardIds == {CARDS[i].id : i \in 1..Len(CARDS)}

\* CARDS.find(c => c.id === cardId); only used for known ids
CardById(id) == CARDS[CHOOSE i \in 1..Len(CARDS) : CARDS[i].id = id]

\* the requires predicate of each catalog entry
cardRequires(id, s) ==
    CASE id = "index_investing"      -> DGe(s.cash, USD(500))
      [] id = "pay_down_debt"        -> DGt(s.debt, DZero) /\ DGe(s.cash, USD(300))
      [] id = "build_emergency_fund" -> TRUE
      [] id = "reduce_lifestyle"     -> DGt(s.expenses, DZero)
      [] id = "negotiate_bills"      -> DGt(s.expenses, DZero)
      [] id = "skill_sprint"         -> s.burnout < 95
      [] id = "side_hustle"          -> DGe(s.cash, USD(800 + (s.sideHustleLevel * 500)))
      [] id = "automate_savings"     -> TRUE
      [] id = "overtime_push"        -> s.burnout < 92
      [] id = "do_nothing"           -> TRUE
      [] id = "career_move"          -> s.burnout < 95
      [] id = "debt_refi"            -> DGt(s.debt, USD(8000)) /\ DGe(s.discipline, N0_55)
      [] id = "start_business"       -> DGe(s.cash, USD(2500)) /\ s.burnout < 85
      [] id = "buy_rental"           -> DGe(s.cash, USD(12000))
      [] id = "house_hack"           -> DGe(s.cash, USD(8000)) /\ s.stress <= 85
      [] id = "insurance_upgrade"    -> DGt(s.expenses, DZero)
      [] id = "panic_sell"           -> DGt(s.invested, USD(1000))
      [] id = "windfall_opportunity" -> TRUE

\* result of an effect: the state, the RNG word, ok, and the reason when declined
Done(s, g) == [s |-> s, g |-> g, ok |-> TRUE, reason |-> ""]
Declined(s, g, reason) == [s |-> s, g |-> g, ok |-> FALSE, reason |-> reason]

\* Math.floor(base + rng() * span) for the draw d and whole numbers base, span
floorDraw(base, d, span) == DFloor(DAdd(USD(base), DMul(d.r, USD(span))))

apply_index_investing(s, g) ==
    Let(DMin(s.cash, USD(6000)), LAMBDA amount :
        IF DLe(amount, DZero) THEN Declined(s, g, "No cash to invest.")
        ELSE Done([s EXCEPT !.cash = DSub(@, amount),
                            !.invested = DAdd(@, amount),
                            !.discipline = DClamp(DAdd(@, N0_02), DZero, DOne),
                            !.stress = clamp(@ - 2, 0, 100)], g))

apply_pay_down_debt(s, g) ==
    Let(DMin(DMin(s.cash, USD(5000)), s.debt), LAMBDA amount :
        IF DLe(amount, DZero) THEN Declined(s, g, "No debt (or no cash).")
        ELSE Done([s EXCEPT !.cash = DSub(@, amount),
                            !.debt = DSub(@, amount),
                            !.stress = clamp(@ - 6, 0, 100),
                            !.discipline = DClamp(DAdd(@, N0_01), DZero, DOne)], g))

apply_build_emergency_fund(s, g) ==
    Done([s EXCEPT !.stress = clamp(@ - 4, 0, 100),
                   !.discipline = DClamp(DAdd(@, N0_02), DZero, DOne),
                   !.flags.emergencyFundBuff =
                        clamp(getFlag(s, "emergencyFundBuff", 0) + 1, 0, 3)], g)

apply_reduce_lifestyle(s, g) ==
    Let(rngCall(g), LAMBDA d :
    Let(DFloor(DMul(s.expenses, DAdd(N0_03, DMul(d.r, N0_04)))), LAMBDA cut :
        Done([s EXCEPT !.expenses = DMax(DZero, DSub(@, cut)),
                       !.stress = clamp(@ - 5, 0, 100),
                       !.discipline = DClamp(DAdd(@, N0_02), DZero, DOne)], d.s)))

apply_negotiate_bills(s, g) ==
    Let(rngCall(g), LAMBDA d :
    Let(floorDraw(600, d, 1400), LAMBDA cut :
        Done([s EXCEPT !.expenses = DMax(DZero, DSub(@, cut)),
                       !.discipline = DClamp(DAdd(@, N0_015), DZero, DOne),
                       !.stress = clamp(@ - 2, 0, 100)], d.s)))

apply_skill_sprint(s, g) ==
    LET s1 == [s EXCEPT !.flags.careerMomentum = clamp(getFlag(s, "careerMomentum", 0) + 1, 0, 5),
                        !.discipline = DClamp(DAdd(@, N0_03), DZero, DOne),
                        !.stress = clamp(@ + 5, 0, 100),
                        !.burnout = clamp(@ + 6, 0, 100)]
    IN  Let(rngCall(g), LAMBDA d1 :
            IF DLt(d1.r, N0_25)
            THEN Let(rngCall(d1.s), LAMBDA d2 :
                 Let(floorDraw(1200, d2, 2400), LAMBDA bump :
                     Done([s1 EXCEPT !.income = DAdd(@, bump)], d2.s)))
            ELSE Done(s1, d1.s))

apply_side_hustle(s, g) ==
    LET lvl == s.sideHustleLevel
        cost == USD(800 + (lvl * 500))
    IN  IF DLt(s.cash, cost) THEN Declined(s, g, "Not enough cash for startup costs.")
        ELSE Let(rngCall(g), LAMBDA d :
             Let(DFloor(DMul(DAdd(USD(900), DMul(d.r, USD(2000))),
                             DAdd(DOne, DMul(N0_35, USD(lvl + 1))))), LAMBDA bump :
                 Done([s EXCEPT !.cash = DSub(@, cost),
                                !.sideHustleLevel = lvl + 1,
                                !.income = DAdd(@, bump),
                                !.stress = clamp(@ + (6 + (lvl * 2)), 0, 100),
                                !.burnout = clamp(@ + 8, 0, 100)], d.s)))

apply_automate_savings(s, g) ==
    Done([s EXCEPT !.flags.autoInvest = clamp(getFlag(s, "autoInvest", 0) + 1, 0, 5),
                   !.discipline = DClamp(DAdd(@, N0_02), DZero, DOne),
                   !.stress = clamp(@ - 1, 0, 100)], g)

apply_overtime_push(s, g) ==
    Let(rngCall(g), LAMBDA d :
    Let(floorDraw(1200, d, 4200), LAMBDA bonus :
        Done([s EXCEPT !.cash = DAdd(@, bonus),
                       !.stress = clamp(@ + 7, 0, 100),
                       !.burnout = clamp(@ + 9, 0, 100)], d.s)))

apply_do_nothing(s, g) ==
    Done([s EXCEPT !.stress = clamp(@ - 3, 0, 100),
                   !.burnout = clamp(@ - 5, 0, 100)], g)

\* success probability of career_move:
\* clamp(0.66 + (discipline - 0.5) * 0.25 - (stress / 100) * 0.18 + momentum * 0.03, 0.30, 0.90)
careerSuccessP(s) ==
    DClamp(DAdd(DSub(DAdd(N0_66, DMul(DSub(s.discipline, N0_5), N0_25)),
                     DMul(DDivInt(USD(s.stress), 100), N0_18)),
                DMul(USD(getFlag(s, "careerMomentum", 0)), N0_03)),
           N0_30, N0_90)

\* both branches draw a second number: the bump or the hit
apply_career_move(s, g) ==
    Let(rngCalls(g, 2), LAMBDA d :
        IF DLt(d[1].r, careerSuccessP(s))
        THEN Let(floorDraw(4000, d[2], 14000), LAMBDA bump :
                 Done([s EXCEPT !.income = DAdd(@, bump),
                                !.stress = clamp(@ + 4, 0, 100)], d[2].s))
        ELSE Let(floorDraw(6000, d[2], 14000), LAMBDA hit :
                 Done([s EXCEPT !.income = DMax(DZero, DSub(@, hit)),
                                !.stress = clamp(@ + 14, 0, 100),
                                !.flags.laidOff = TRUE], d[2].s)))

apply_debt_refi(s, g) ==
    LET s1 == [s EXCEPT !.flags.refiLevel = clamp(getFlag(s, "refiLevel", 0) + 1, 0, 2),
                        !.stress = clamp(@ - 6, 0, 100)]
    IN  Let(rngCall(g), LAMBDA d :
        Let(floorDraw(400, d, 900), LAMBDA fee :
            IF DGe(s.cash, fee)
            THEN Done([s1 EXCEPT !.cash = DSub(@, fee)], d.s)
            ELSE Done([s1 EXCEPT !.debt = DAdd(@, DMul(DSub(fee, s.cash), N1_1)),
                                 !.cash = DZero], d.s)))

\* (rng() + rng() + rng() + rng() - 2) / 2 for the four draws d[1..4]
sumUniformNoise(d) ==
    DDivInt(DSub(DAdd(DAdd(DAdd(d[1].r, d[2].r), d[3].r), d[4].r), USD(2)), 2)

apply_start_business(s, g) ==
    LET level == clamp(getFlag(s, "businessLevel", 0) + 1, 0, 5)
    IN  Let(rngCall(g), LAMBDA d0 :
        Let(floorDraw(2000, d0, 4000), LAMBDA seedCost :
            IF DLt(s.cash, seedCost) THEN Declined(s, d0.s, "Not enough cash to start.")
            ELSE Let(rngCalls(d0.s, 4), LAMBDA n :
                 Let(DFloor(DMul(USD(2500 + (level * 1800)),
                                 DAdd(DOne, DMul(sumUniformNoise(n), N0_9)))), LAMBDA bump :
                     Done([s EXCEPT !.cash = DSub(@, seedCost),
                                    !.flags.businessLevel = level,
                                    !.income = DMax(DZero, DAdd(@, bump)),
                                    !.stress = clamp(@ + (10 + (level * 2)), 0, 100),
                                    !.burnout = clamp(@ + 14, 0, 100)], n[4].s)))))

apply_buy_rental(s, g) ==
    Let(rngCalls(g, 2), LAMBDA d :
        LET down == USD(12000)
            addedDebt == floorDraw(60000, d[1], 20000)
            cashflow == floorDraw(800, d[2], 2800)
        IN  Done([s EXCEPT !.cash = DSub(@, down),
                           !.debt = DAdd(@, addedDebt),
                           !.rentalUnits = @ + 1,
                           !.income = DAdd(@, cashflow),
                           !.stress = clamp(@ + 10, 0, 100),
                           !.risk = DClamp(DAdd(@, N0_06), DZero, DOne),
                           !.flags.propertyExposure =
                                clamp(getFlag(s, "propertyExposure", 0) + 1, 0, 5)], d[2].s))

apply_house_hack(s, g) ==
    Let(rngCall(g), LAMBDA d1 :
    Let(floorDraw(8000, d1, 4000), LAMBDA cost :
        IF DLt(s.cash, cost) THEN Declined(s, d1.s, "Not enough cash to house hack.")
        ELSE Let(rngCalls(d1.s, 2), LAMBDA d :
                 LET addedDebt == floorDraw(25000, d[1], 15000)
                     expenseDrop == floorDraw(1200, d[2], 2400)
                 IN  Done([s EXCEPT !.cash = DSub(@, cost),
                                    !.debt = DAdd(@, addedDebt),
                                    !.expenses = DMax(DZero, DSub(@, expenseDrop)),
                                    !.stress = clamp(@ + 4, 0, 100),
                                    !.risk = DClamp(DAdd(@, N0_03), DZero, DOne)], d[2].s))))

apply_insurance_upgrade(s, g) ==
    Let(rngCall(g), LAMBDA d :
    Let(floorDraw(300, d, 900), LAMBDA added :
        Done([s EXCEPT !.expenses = DAdd(@, added),
                       !.flags.insuranceLevel = clamp(getFlag(s, "insuranceLevel", 0) + 1, 0, 2),
                       !.stress = clamp(@ - 2, 0, 100)], d.s)))

apply_panic_sell(s, g) ==
    Let(DFloor(DMul(s.invested, N0_95)), LAMBDA liquidated :
        Done([s EXCEPT !.invested = DSub(@, liquidated),
                       !.cash = DAdd(@, liquidated),
                       !.flags.regretDrag = clamp(getFlag(s, "regretDrag", 0) + 1, 0, 3),
                       !.stress = clamp(@ - 6, 0, 100),
                       !.discipline = DClamp(DSub(@, N0_03), DZero, DOne)], g))

apply_windfall_opportunity(s, g) ==
    Let(rngCall(g), LAMBDA d :
    Let(DAdd(USD(1200), DMul(d.r, USD(3000))), LAMBDA base :
    Let(DFloor(DMul(base, DAdd(DOne, DMul(s.discipline, N2_2)))), LAMBDA bonus :
        Done([s EXCEPT !.cash = DAdd(@, bonus),
                       !.stress = clamp(@ - 4, 0, 100)], d.s))))

\* card.apply(state, rng), dispatched on the card id
cardApply(id, s, g) ==
    CASE id = "index_investing"      -> apply_index_investing(s, g)
      [] id = "pay_down_debt"        -> apply_pay_down_debt(s, g)
      [] id = "build_emergency_fund" -> apply_build_emergency_fund(s, g)
      [] id = "reduce_lifestyle"     -> apply_reduce_lifestyle(s, g)
      [] id = "negotiate_bills"      -> apply_negotiate_bills(s, g)
      [] id = "skill_sprint"         -> apply_skill_sprint(s, g)
      [] id = "side_hustle"          -> apply_side_hustle(s, g)
      [] id = "automate_savings"     -> apply_automate_savings(s, g)
      [] id = "overtime_push"        -> apply_overtime_push(s, g)
      [] id = "do_nothing"           -> apply_do_nothing(s, g)
      [] id = "career_move"          -> apply_career_move(s, g)
      [] id = "debt_refi"            -> apply_debt_refi(s, g)
      [] id = "start_business"       -> apply_start_business(s, g)
      [] id = "buy_rental"           -> apply_buy_rental(s, g)
      [] id = "house_hack"           -> apply_house_hack(s, g)
      [] id = "insurance_upgrade"    -> apply_insurance_upgrade(s, g)
      [] id = "panic_sell"           -> apply_panic_sell(s, g)
      [] id = "windfall_opportunity" -> apply_windfall_opportunity(s, g)

initDefaultUnlocks(state) == unlockCards(state, CardIds)

\* variant: the exhausted set is not consulted
isCardPlayable_ignoreExhausted(state, card) ==
    LET meta == ensureRunMeta(state).runMeta
    IN  /\ card.id \in meta.unlocked
        /\ card.id \notin DOMAIN meta.cooldowns
        /\ cardRequires(card.id, state)
\* variant: the cooldowns map is not consulted
isCardPlayable_ignoreCooldowns(state, card) ==
    LET meta == ensureRunMeta(state).runMeta
    IN  /\ card.id \in meta.unlocked
        /\ card.id \notin meta.exhausted
        /\ cardRequires(card.id, state)
isCardPlayable(state, card) ==
    LET meta == ensureRunMeta(state).runMeta
    IN  /\ card.id \in meta.unlocked
        /\ card.id \notin meta.exhausted
        /\ card.id \notin DOMAIN meta.cooldowns
        /\ cardRequires(card.id, state)


\* let w = 1.0, multiplied by the factor of every condition that holds
situationalBiasWeight(state, card) ==
    LET hasTag(t) == t \in card.tags
        f(cond, w, k) == IF cond THEN DMul(w, k) ELSE w
    IN
    Let(f(state.stress > 70 /\ card.type = "defense", DOne, N1_7), LAMBDA w1 :
    Let(f(state.stress > 70 /\ hasTag("recovery"), w1, N1_6), LAMBDA w2 :
    Let(f(DGt(state.debt, USD(20000)) /\ hasTag("debt"), w2, N1_8), LAMBDA w3 :
    Let(f(DGt(state.debt, USD(20000)) /\ hasTag("leverage"), w3, N0_75), LAMBDA w4 :
    Let(f(DLt(state.cash, USD(3000))
              /\ (hasTag("expenses") \/ hasTag("stability") \/ card.type = "defense"),
          w4, N1_6), LAMBDA w5 :
    Let(f(DLt(state.cash, USD(3000)) /\ hasTag("ownership"), w5, N0_4), LAMBDA w6 :
    Let(f(state.burnout > 75 /\ (hasTag("burnout") \/ hasTag("hustle")), w6, N0_55),
        LAMBDA w7 :
    Let(f(state.burnout > 75 /\ (hasTag("recovery") \/ card.id = "do_nothing"), w7, N1_5),
        LAMBDA w8 :
        f(DGt(state.invested, USD(15000)) /\ card.id = "panic_sell", w8, N1_15)))))))))

\* pool.reduce((s, x) => s + x.w, 0) over the first k entries
RECURSIVE SumW(_, _)
SumW(pool, k) == IF k = 0 THEN DZero ELSE DAdd(SumW(pool, k - 1), pool[k].w)

\* the scan of pickWeighted and pickWeightedEvent: "roll -= w; if (roll <= 0)
\* return" from entry k on; the index of the entry returned, the last one if
\* the roll stays positive
RECURSIVE RollIndex(_, _, _)
RollIndex(pool, k, roll) ==
    IF k > Len(pool) THEN Len(pool)
    ELSE Let(DSub(roll, pool[k].w), LAMBDA left :
             IF DLe(left, DZero) THEN k ELSE RollIndex(pool, k + 1, left))

\* items: sequence of [item, w]; result: the picked item (or "null") and the RNG word
pickWeighted(g, items) ==
    Let(SelectSeq(items, LAMBDA x : DGt(x.w, DZero)), LAMBDA pool :
    Let(SumW(pool, Len(pool)), LAMBDA total :
        IF DLe(total, DZero) THEN [item |-> "null", g |-> g]
        ELSE Let(rngCall(g), LAMBDA d :
                 [item |-> pool[RollIndex(pool, 1, DMul(d.r, total))].item,
                  g |-> d.s])))

\* the inner helper of drawHand: draws up to n cards of pool (a sequence of
\* ids) into acc.hand, without replacement
RECURSIVE drawFrom_withReplacement(_, _, _, _, _)
RECURSIVE drawFrom(_, _, _, _, _)
\* variant: cards that were already drawn stay among the candidates
drawFrom_withReplacement(state, pool, n, maxHand, acc) ==
    IF n <= 0 THEN acc
    ELSE IF pool = <<>> THEN acc
    ELSE Let(pickWeighted(acc.g,
                 [i \in 1..Len(pool) |->
                     [item |-> pool[i],
                      w |-> DMul(DOne, situationalBiasWeight(state, CardById(pool[i])))]]),
             LAMBDA picked :
         IF picked.item = "null" THEN [acc EXCEPT !.g = picked.g]
         ELSE Let([hand |-> Append(acc.hand, picked.item),
                   used |-> acc.used \cup {picked.item},
                   g |-> picked.g], LAMBDA acc1 :
              IF Len(acc1.hand) >= maxHand THEN acc1
              ELSE drawFrom_withReplacement(state, pool, n - 1, maxHand, acc1)))
drawFrom(state, pool, n, maxHand, acc) ==
    IF n <= 0 THEN acc
    ELSE Let(SelectSeq(pool, LAMBDA id : id \notin acc.used), LAMBDA candidates :
         IF candidates = <<>> THEN acc
         ELSE Let(pickWeighted(acc.g,
                      [i \in 1..Len(candidates) |->
                          [item |-> candidates[i],
                           w |-> DMul(DOne, situationalBiasWeight(state,
                                                                  CardById(candidates[i])))]]),
                  LAMBDA picked :
              IF picked.item = "null" THEN [acc EXCEPT !.g = picked.g]
              ELSE Let([hand |-> Append(acc.hand, picked.item),
                        used |-> acc.used \cup {picked.item},
                        g |-> picked.g], LAMBDA acc1 :
                   IF Len(acc1.hand) >= maxHand THEN acc1
                   ELSE drawFrom(state, pool, n - 1, maxHand, acc1))))

DefaultOpts ==
    [commons |-> 4, uncommons |-> 2, includeRareChance |-> N0_28,
     includeWildChance |-> N0_30, maxHand |-> 8]

\* "if (rng() < chance) drawFrom(pool, 1)": the draw against the chance is
\* made in any case
drawIfBelow(state, pool, chance, maxHand, acc) ==
    Let(rngCall(acc.g), LAMBDA d :
        IF DLt(d.r, chance)
        THEN drawFrom(state, pool, 1, maxHand, [acc EXCEPT !.g = d.s])
        ELSE [acc EXCEPT !.g = d.s])

\* the result is the hand (sequence of card ids) and the RNG word after the
\* draws
drawHand(state, g, opts) ==
    Let(SelectSeq([i \in 1..Len(CARDS) |-> CARDS[i].id],
                  LAMBDA id : isCardPlayable(state, CardById(id))), LAMBDA unlocked :
    LET byRarity(r) == SelectSeq(unlocked, LAMBDA id : CardById(id).rarity = r)
        floor6 == Min(opts.maxHand, 6)
    IN
    Let(drawFrom(state, byRarity("common"), opts.commons, opts.maxHand,
                 [hand |-> <<>>, used |-> {}, g |-> g]), LAMBDA a1 :
    Let(drawFrom(state, byRarity("uncommon"), opts.uncommons, opts.maxHand, a1), LAMBDA a2 :
    Let(drawIfBelow(state, byRarity("rare"), opts.includeRareChance, opts.maxHand, a2),
        LAMBDA a3 :
    Let(drawIfBelow(state,
                    SelectSeq(unlocked, LAMBDA id : CardById(id).type = "wildcard"
                                                     /\ id \notin a3.used),
                    opts.includeWildChance, opts.maxHand, a3), LAMBDA a4 :
    Let(IF Len(a4.hand) < floor6
        THEN drawFrom(state, byRarity("common"), Min(2, floor6 - Len(a4.hand)),
                      opts.maxHand, a4)
        ELSE a4, LAMBDA a5 :
        [hand |-> a5.hand, g |-> a5.g]))))))

---------------------------------------------------------------------------
(* applyCard *)

\* variant: the ledger is marked whatever the effect returned
markPlayed_always(state, card, ok) ==
    LET s1 == IF card.exhaust
              THEN [state EXCEPT !.runMeta.exhausted = @ \cup {card.id}]
              ELSE state
    IN  IF card.cooldownYears > 0
        THEN [s1 EXCEPT !.runMeta.cooldowns = setCooldown(@, card.id, card.cooldownYears)]
        ELSE s1
\* the exhaust / cooldown marking at the end of applyCard
markPlayed(state, card, ok) ==
    LET s1 == IF ok /\ card.exhaust
              THEN [state EXCEPT !.runMeta.exhausted = @ \cup {card.id}]
              ELSE state
    IN  IF ok /\ card.cooldownYears > 0
        THEN [s1 EXCEPT !.runMeta.cooldowns = setCooldown(@, card.id, card.cooldownYears)]
        ELSE s1

\* variant: the effect is applied without asking isCardPlayable
applyCard_skipPlayableCheck(state, g, cardId) ==
    LET s0 == ensureRunMeta(state)
        card == CardById(cardId)
    IN  IF cardId \notin CardIds
        THEN [s |-> s0, g |-> g,
              res |-> [card |-> "undefined", ok |-> FALSE, reason |-> "Unknown card."]]
        ELSE Let(cardApply(cardId, s0, g), LAMBDA res :
                 [s |-> markPlayed(res.s, card, res.ok), g |-> res.g,
                  res |-> [card |-> card.id, ok |-> res.ok, reason |-> res.reason]])
\* variant: a refused card costs one draw of the generator
applyCard_drawOnRefusal(state, g, cardId) ==
    LET s0 == ensureRunMeta(state)
        card == CardById(cardId)
    IN  IF cardId \notin CardIds
        THEN [s |-> s0, g |-> rngCall(g).s,
              res |-> [card |-> "undefined", ok |-> FALSE, reason |-> "Unknown card."]]
        ELSE IF ~isCardPlayable(s0, card)
        THEN [s |-> s0, g |-> rngCall(g).s,
              res |-> [card |-> "undefined", ok |-> FALSE,
                       reason |-> "Card not playable (cooldown/exhaust/requirements)."]]
        ELSE Let(cardApply(cardId, s0, g), LAMBDA res :
                 [s |-> markPlayed(res.s, card, res.ok), g |-> res.g,
                  res |-> [card |-> card.id, ok |-> res.ok, reason |-> res.reason]])
\* result: the state, the RNG word and the returned object {card, ok, text|reason}
\* (card is the id of the card whose effect ran; a result returned before the
\* effect, for an unknown or a refused card, has no card: "undefined")
applyCard(state, g, cardId) ==
    LET s0 == ensureRunMeta(state)
        card == CardById(cardId)
    IN  IF cardId \notin CardIds
        THEN [s |-> s0, g |-> g,
              res |-> [card |-> "undefined", ok |-> FALSE, reason |-> "Unknown card."]]
        ELSE IF ~isCardPlayable(s0, card)
        THEN [s |-> s0, g |-> g,
              res |-> [card |-> "undefined", ok |-> FALSE,
                       reason |-> "Card not playable (cooldown/exhaust/requirements)."]]
        ELSE Let(cardApply(cardId, s0, g), LAMBDA res :
                 [s |-> markPlayed(res.s, card, res.ok), g |-> res.g,
                  res |-> [card |-> card.id, ok |-> res.ok, reason |-> res.reason]])

---------------------------------------------------------------------------
(* 5) Card-flag wiring in sim *)

applyShockBuffer(state, rawAmount) ==
    LET buff == getFlag(state, "emergencyFundBuff", 0)
    IN  IF buff <= 0 THEN rawAmount
        ELSE DMax(DZero, DFloor(DMul(rawAmount, DSub(DOne, DMul(USD(buff), N0_07)))))

applyAutoInvest(state) ==
    LET level == getFlag(state, "autoInvest", 0)
    IN  IF level <= 0 THEN state
        ELSE Let(DFloor(DMul(state.income, DAdd(N0_01, DMul(N0_01, USD(level))))),
                 LAMBDA target :
             Let(DMin(state.cash, DClamp(target, USD(200), USD(2500))), LAMBDA amount :
                 IF DGt(amount, DZero)
                 THEN addLog([state EXCEPT !.cash = DSub(@, amount),
                                           !.invested = DAdd(@, amount),
                                           !.discipline = DClamp(DAdd(@, N0_01), DZero, DOne),
                                           !.stress = clamp(@ - 1, 0, 100)],
                             [type |-> "system", title |-> "Auto-Invest"])
                 ELSE state))

---------------------------------------------------------------------------
(* 6) Economy *)

\* variant: the shortfall is rolled into debt without the 5% surcharge
applyYearlyCashflow_noSurcharge(state) ==
    Let([state EXCEPT !.cash = DAdd(@, DSub(state.income, state.expenses))], LAMBDA s1 :
        IF DLt(s1.cash, DZero)
        THEN Let([s1 EXCEPT !.cash = DZero], LAMBDA s2 :
             Let(applyShockBuffer(s2, DAbs(s1.cash)), LAMBDA buffered :
                 addLog([s2 EXCEPT !.debt = DAdd(@, buffered),
                                   !.stress = clamp(@ + 10, 0, 100)],
                        [type |-> "system", title |-> "Cash Shortfall"])))
        ELSE s1)
\* variant: a shortfall stays on the cash balance as an overdraft
applyYearlyCashflow_overdraft(state) ==
    [state EXCEPT !.cash = DAdd(@, DSub(state.income, state.expenses))]
applyYearlyCashflow(state) ==
    Let([state EXCEPT !.cash = DAdd(@, DSub(state.income, state.expenses))], LAMBDA s1 :
        IF DLt(s1.cash, DZero)
        THEN Let([s1 EXCEPT !.cash = DZero], LAMBDA s2 :
             Let(applyShockBuffer(s2, DAbs(s1.cash)), LAMBDA buffered :
                 addLog([s2 EXCEPT !.debt = DAdd(@, DMul(buffered, N1_05)),
                                   !.stress = clamp(@ + 10, 0, 100)],
                        [type |-> "system", title |-> "Cash Shortfall"])))
        ELSE s1)

\* the apr of applyDebtInterest
debtAPR(state) ==
    LET baseAPR == N0_10
        stressAPR == DMul(DDivInt(USD(state.stress), 100), N0_06)
        cashPenalty == IF DLt(state.cash, USD(2000)) THEN N0_03 ELSE DZero
        refiLevel == getFlag(state, "refiLevel", 0)
        refiDiscount == IF refiLevel = 0 THEN DZero ELSE (IF refiLevel = 1 THEN N0_03 ELSE N0_05)
    IN  DClamp(DSub(DAdd(DAdd(baseAPR, stressAPR), cashPenalty), refiDiscount), N0_02, N0_30)

applyDebtInterest(state) ==
    Let(DMul(state.debt, debtAPR(state)), LAMBDA interest :
        addLog([state EXCEPT !.debt = DAdd(@, interest)],
               [type |-> "system", title |-> "Debt Interest"]))

\* result: the state, the RNG word and the realized rate r
applyMarketReturn(state, g) ==
    LET base == N0_07
        volatility == N0_18
        behaviorDrag == DMul(DDivInt(USD(state.stress), 100), N0_03)
        regretDrag == DMul(USD(getFlag(state, "regretDrag", 0)), N0_012)
    IN  Let(rngCalls(g, 4), LAMBDA d :
        Let(DAdd(base, DMul(sumUniformNoise(d), volatility)), LAMBDA r0 :
        Let(DClamp(DSub(r0, DAdd(behaviorDrag, regretDrag)), DNeg(N0_45), N0_45), LAMBDA r :
        Let(DMul(state.invested, r), LAMBDA gain :
            [s |-> addLog([state EXCEPT !.invested = DAdd(@, gain)],
                          [type |-> "market", title |-> "Market Return"]),
             g |-> d[4].s, r |-> r]))))

---------------------------------------------------------------------------
(* 7) Events (weighted) *)

Event(id, name) == [id |-> id, name |-> name]

EVENTS ==
    << Event("market_crash", "Market Crash"),
       Event("medical_bill", "Medical Bill"),
       Event("layoff", "Layoff"),
       Event("boring_year", "Boring Stable Year"),
       Event("lucky_break", "Lucky Break"),
       Event("rental_repair", "Rental Repair") >>

\* variant: no event's weight falls to zero (the emergency fund does not
\* lower the weight of medical_bill, rental_repair does not need a unit)
eventWeight_neverZero(id, s) ==
    CASE id = "market_crash"  -> DAdd(USD(6), DMul(s.risk, USD(6)))
      [] id = "medical_bill"  ->
            LET ef == getFlag(s, "emergencyFundBuff", 0)
                base == 5 + (IF DLt(s.cash, USD(4000)) THEN 6 ELSE 0)
            IN  USD(base)
      [] id = "layoff"        ->
            DSub(USD(4 + (IF s.stress > 70 THEN 5 ELSE 0)),
                 DMul(USD(getFlag(s, "careerMomentum", 0)), N0_5))
      [] id = "boring_year"   ->
            USD(10 + (IF DGt(s.cash, USD(8000)) THEN 2 ELSE 0)
                   + (IF DGt(s.discipline, N0_65) THEN 2 ELSE 0))
      [] id = "lucky_break"   -> USD(4 + (IF DGt(s.discipline, N0_6) THEN 2 ELSE 0))
      [] id = "rental_repair" ->
            LET exposure == getFlag(s, "propertyExposure", 0)
                units == s.rentalUnits
            IN  DAdd(USD(4 + (units * 3)), DMul(USD(exposure), N1_5))
\* the weight function of each event
eventWeight(id, s) ==
    CASE id = "market_crash"  -> DAdd(USD(6), DMul(s.risk, USD(6)))
      [] id = "medical_bill"  ->
            LET ef == getFlag(s, "emergencyFundBuff", 0)
                base == 5 + (IF DLt(s.cash, USD(4000)) THEN 6 ELSE 0)
            IN  USD(Max(0, base - (ef * 2)))
      [] id = "layoff"        ->
            DSub(USD(4 + (IF s.stress > 70 THEN 5 ELSE 0)),
                 DMul(USD(getFlag(s, "careerMomentum", 0)), N0_5))
      [] id = "boring_year"   ->
            USD(10 + (IF DGt(s.cash, USD(8000)) THEN 2 ELSE 0)
                   + (IF DGt(s.discipline, N0_65) THEN 2 ELSE 0))
      [] id = "lucky_break"   -> USD(4 + (IF DGt(s.discipline, N0_6) THEN 2 ELSE 0))
      [] id = "rental_repair" ->
            LET exposure == getFlag(s, "propertyExposure", 0)
                units == s.rentalUnits
            IN  IF units > 0 THEN DAdd(USD(4 + (units * 3)), DMul(USD(exposure), N1_5))
                ELSE DZero

event_market_crash(s) ==
    Let(DMul(s.invested, N0_22), LAMBDA loss :
        [s EXCEPT !.invested = DSub(@, loss), !.stress = clamp(@ + 10, 0, 100)])

event_medical_bill(s) ==
    LET insuranceLevel == getFlag(s, "insuranceLevel", 0)
        emergencyBuff == getFlag(s, "emergencyFundBuff", 0)
        insuranceMult == IF insuranceLevel = 0 THEN DOne
                         ELSE (IF insuranceLevel = 1 THEN N0_75 ELSE N0_55)
        debtPenalty == IF insuranceLevel = 0 THEN N1_15
                       ELSE (IF insuranceLevel = 1 THEN N1_08 ELSE N1_03)
    IN  Let(DAdd(USD(1800), DFloor(DMul(DDivInt(USD(s.stress), 100), USD(2500)))), LAMBDA bill0 :
        Let(DFloor(DMul(bill0, insuranceMult)), LAMBDA bill1 :
        Let(DMax(DZero, DFloor(DMul(bill1, DSub(DOne, DMul(N0_08, USD(emergencyBuff)))))),
            LAMBDA bill :
        Let(IF DGe(s.cash, bill)
            THEN [s EXCEPT !.cash = DSub(@, bill)]
            ELSE [s EXCEPT !.cash = DZero,
                           !.flags.medicalDebt =
                              DAdd(getFlag(s, "medicalDebt", DZero),
                                   DMul(DSub(bill, s.cash), debtPenalty))], LAMBDA s1 :
            [s1 EXCEPT !.stress = clamp(@ + 8 - (insuranceLevel * 2), 0, 100)]))))

event_layoff(s) ==
    [s EXCEPT !.flags.laidOff = TRUE, !.stress = clamp(@ + 14, 0, 100)]

event_boring_year(s) ==
    [s EXCEPT !.stress = clamp(@ - 6, 0, 100), !.burnout = clamp(@ - 6, 0, 100)]

event_lucky_break(s) ==
    Let(DAdd(USD(1200), DFloor(DMul(s.discipline, USD(8000)))), LAMBDA bonus :
        [s EXCEPT !.cash = DAdd(@, bonus), !.stress = clamp(@ - 4, 0, 100)])

event_rental_repair(s) ==
    Let(applyShockBuffer(s, USD(900 + (s.rentalUnits * 700))), LAMBDA cost :
    Let(IF DGe(s.cash, cost)
        THEN [s EXCEPT !.cash = DSub(@, cost)]
        ELSE [s EXCEPT !.debt = DAdd(@, DMul(DSub(cost, s.cash), N1_1)), !.cash = DZero],
        LAMBDA s1 :
        [s1 EXCEPT !.stress = clamp(@ + 6, 0, 100)]))

\* event.apply(state, rng), dispatched on the event id (no event draws from the RNG)
eventApply(id, s) ==
    CASE id = "market_crash"  -> event_market_crash(s)
      [] id = "medical_bill"  -> event_medical_bill(s)
      [] id = "layoff"        -> event_layoff(s)
      [] id = "boring_year"   -> event_boring_year(s)
      [] id = "lucky_break"   -> event_lucky_break(s)
      [] id = "rental_repair" -> event_rental_repair(s)

NullEvent == [id |-> "null", name |-> "null"]

\* result: the picked event (NullEvent for null) and the RNG word
pickWeightedEvent(state, g) ==
    Let(SelectSeq([i \in 1..Len(EVENTS) |->
                      [item |-> EVENTS[i],
                       w |-> DMax(DZero, eventWeight(EVENTS[i].id, state))]],
                  LAMBDA x : DGt(x.w, DZero)), LAMBDA pool :
    Let(SumW(pool, Len(pool)), LAMBDA total :
        IF DLe(total, DZero) THEN [e |-> NullEvent, g |-> g]
        ELSE Let(rngCall(g), LAMBDA d :
                 [e |-> pool[RollIndex(pool, 1, DMul(d.r, total))].item,
                  g |-> d.s])))

\* variant: a boring year counts as a year without an event
applyEventForYear_boringIsNull(state, g) ==
    Let(pickWeightedEvent(state, g), LAMBDA picked :
        IF picked.e = NullEvent \/ picked.e.id = "boring_year"
        THEN [s |-> state, g |-> picked.g, event |-> NullEvent]
        ELSE [s |-> addLog(eventApply(picked.e.id, state),
                           [type |-> "event", title |-> picked.e.name, id |-> picked.e.id]),
              g |-> picked.g, event |-> picked.e])
\* result: the state, the RNG word and the returned {id, name} (NullEvent for null)
applyEventForYear(state, g) ==
    Let(pickWeightedEvent(state, g), LAMBDA picked :
        IF picked.e = NullEvent THEN [s |-> state, g |-> picked.g, event |-> NullEvent]
        ELSE [s |-> addLog(eventApply(picked.e.id, state),
                           [type |-> "event", title |-> picked.e.name, id |-> picked.e.id]),
              g |-> picked.g, event |-> picked.e])

---------------------------------------------------------------------------
(* 8) Stress / burnout drift *)

\* variant: the income is cut but the flag stays set
resolveLayoffFlag_keepFlag(state) ==
    IF ~state.flags.laidOff THEN state
    ELSE addLog([state EXCEPT !.income = DFloor(DMul(@, DSub(DOne, N0_45)))],
                [type |-> "system", title |-> "Income Disruption"])
\* stepYear: the layoff effect, right after the event stage
resolveLayoffFlag(state) ==
    IF ~state.flags.laidOff THEN state
    ELSE addLog([state EXCEPT !.income = DFloor(DMul(@, DSub(DOne, N0_45))),
                              !.flags.laidOff = FALSE],
                [type |-> "system", title |-> "Income Disruption"])

updateStressAndBurnout(state) ==
    LET hustleLoad == (state.sideHustleLevel * 2) + (state.rentalUnits * 2)
        fragility == (IF DLt(state.cash, USD(3000)) THEN 6 ELSE 0)
                   + (IF DGt(state.debt, USD(25000)) THEN 6 ELSE 0)
                   + (IF DGt(getFlag(state, "medicalDebt", DZero), DZero) THEN 4 ELSE 0)
    IN  Let([state EXCEPT
                !.burnout = clamp(@ + (IF state.stress > 60 THEN 4 ELSE 1) + hustleLoad
                                    - (IF state.stress < 30 THEN 2 ELSE 0), 0, 100),
                !.stress = clamp(@ + fragility
                                   - (IF DGt(state.discipline, N0_65) THEN 2 ELSE 0), 0, 100)],
            LAMBDA s2 :
            IF s2.burnout > 80
            THEN addLog([s2 EXCEPT !.expenses = DFloor(DMul(@, N1_04)),
                                   !.discipline = DClamp(DSub(@, N0_03), DZero, DOne)],
                        [type |-> "system", title |-> "Burnout Spiral"])
            ELSE s2)


---------------------------------------------------------------------------
(* 9) Step year + run *)

\* the log entry stepYear writes for the attempt a = applyCard(state, rng, id)
logCard(a, id) ==
    [s |-> addLog(a.s, [type |-> "card",
                        title |-> IF a.res.card = "undefined" THEN "Unknown Card"
                                  ELSE CardById(a.res.card).name,
                        id |-> id, ok |-> a.res.ok, reason |-> a.res.reason]),
     g |-> a.g, res |-> a.res]

\* one iteration of the card loop of stepYear: the attempt and its log entry
playCard(state, g, id) ==
    Let(applyCard(state, g, id), LAMBDA a : logCard(a, id))

RECURSIVE playCards_dropFailed(_, _, _, _, _)
RECURSIVE playCards(_, _, _, _, _)
\* variant: failed attempts leave no entry in cardResults
playCards_dropFailed(state, g, picks, k, cardResults) ==
    IF k > Len(picks) THEN [s |-> state, g |-> g, cardResults |-> cardResults]
    ELSE Let(playCard(state, g, picks[k]), LAMBDA a :
             playCards_dropFailed(a.s, a.g, picks, k + 1,
                 IF a.res.ok THEN Append(cardResults, a.res) ELSE cardResults))
\* the card loop of stepYear: applies picks[k..] in order, collecting the
\* results and one log entry of type "card" per pick
playCards(state, g, picks, k, cardResults) ==
    IF k > Len(picks) THEN [s |-> state, g |-> g, cardResults |-> cardResults]
    ELSE Let(playCard(state, g, picks[k]), LAMBDA a :
             playCards(a.s, a.g, picks, k + 1, Append(cardResults, a.res)))

\* the head of stepYear: ledger present, log cleared, cooldowns ticked
beginYear(state) ==
    tickCooldowns([ensureRunMeta(state) EXCEPT !.log = <<>>])

\* the picks stepYear plays: the first two chosen ids
firstTwo(chosenCardIds) == SubSeq(chosenCardIds, 1, Min(2, Len(chosenCardIds)))

\* the snapshot stepYear pushes onto history
makeSnapshot(state, r, picks, cardResults, event) ==
    [year |-> state.year,
     cash |-> Rounded(state.cash),
     invested |-> Rounded(state.invested),
     debt |-> Rounded(state.debt),
     income |-> Rounded(state.income),
     expenses |-> Rounded(state.expenses),
     stress |-> state.stress,
     burnout |-> state.burnout,
     rentalUnits |-> state.rentalUnits,
     sideHustleLevel |-> state.sideHustleLevel,
     netWorth |-> Rounded(netWorth(state)),
     marketReturn |-> r,
     chosenCardIds |-> picks,
     cardResults |-> cardResults,
     event |-> event,
     flags |-> state.flags,
     log |-> state.log]

\* variant: the year is counted from the length of history
pushSnapshot_countFromOne(state, snapshot) ==
    [state EXCEPT !.history = Append(@, snapshot), !.year = Len(state.history) + 2]
\* the tail of stepYear: the snapshot joins history and the year advances
pushSnapshot(state, snapshot) ==
    [state EXCEPT !.history = Append(@, snapshot), !.year = @ + 1]

\* the rest of stepYear after the card loop: event, layoff, cashflow,
\* auto-invest, interest, market, drift, snapshot, year advance
finishYear(state, g, picks, cardResults) ==
    Let(applyEventForYear(state, g), LAMBDA e :
    Let(applyDebtInterest(applyAutoInvest(applyYearlyCashflow(resolveLayoffFlag(e.s)))),
        LAMBDA s7 :
    Let(applyMarketReturn(s7, e.g), LAMBDA m :
    Let(updateStressAndBurnout(m.s), LAMBDA s9 :
    Let(makeSnapshot(s9, m.r, picks, cardResults, e.event), LAMBDA snapshot :
        [s |-> pushSnapshot(s9, snapshot),
         g |-> m.g,
         snapshot |-> snapshot])))))

\* result: the state, the RNG word and the snapshot pushed onto history
stepYear(state, g, chosenCardIds) ==
    Let(playCards(beginYear(state), g, firstTwo(chosenCardIds), 1, <<>>), LAMBDA c :
        finishYear(c.s, c.g, firstTwo(chosenCardIds), c.cardResults))

\* variant: a gauge must pass 100, not reach it
isEnding_strictGauges(state) ==
    \/ DLt(netWorth(state), USD(-50000))
    \/ state.stress > 100
    \/ state.burnout > 100
\* the endings checked by runSimulation after each year
isEnding(state) ==
    \/ DLt(netWorth(state), USD(-50000))
    \/ state.stress >= 100
    \/ state.burnout >= 100

\* the policy argument of runSimulation: "none" is the default (first two
\* cards of the hand); the others stand for caller-supplied functions
policyChoice(policy, state, hand) ==
    CASE policy = "none" -> SubSeq(hand, 1, Min(2, Len(hand)))
      [] policy = "lastTwo" -> SubSeq(hand, Max(1, Len(hand) - 1), Len(hand))
      [] policy = "repeatFirst" -> IF hand = <<>> THEN <<>> ELSE <<hand[1], hand[1]>>
      [] policy = "rareFirst" -> <<"windfall_opportunity", "panic_sell", "do_nothing">>
      [] policy = "fundTwice" -> <<"build_emergency_fund", "build_emergency_fund">>
      [] policy = "automateTwice" -> <<"automate_savings", "automate_savings">>
      [] policy = "careerOnly" -> <<"career_move">>
      [] policy = "protectOnce" ->
           IF state.history = <<>> THEN <<"debt_refi", "insurance_upgrade">> ELSE <<>>

\* the setup shared by runSimulation and createGame
newRun(seed, initialState) ==
    [s |-> initDefaultUnlocks(ensureRunMeta(createInitialState(initialState))),
     g |-> createRng(seed)]

\* createGame(...).playYear(chosenCardIds)
playYear(state, g, chosenCardIds) ==
    Let(stepYear(state, g, chosenCardIds), LAMBDA y :
    Let(drawHand(y.s, y.g, DefaultOpts), LAMBDA h :
        [s |-> y.s, g |-> h.g, currentHand |-> h.hand, snap |-> y.snapshot]))

---------------------------------------------------------------------------
(* Bounds and inputs of the model *)

\* largest `years` argument given to runSimulation
MaxYears == 5
\* largest number of playYear calls a caller of createGame makes on one game
MaxCalls == 2
\* largest number of years played on the page between two new runs
MaxPageYears == 1
\* numeric seeds 1..MaxSeed are tried next to the string seed "RUN-001"
MaxSeed == 1
\* largest number of years stepped card by card
MaxCardYears == 1

\* the years argument the page passes to createGame
PageYears == 15

\* "RUN-001" as char codes: the default seed of createGame, the seed the page
\* boots with and the default text of its seed prompt
SeedRun001 == [str |-> <<82, 85, 78, 45, 48, 48, 49>>]
\* "RUN-7": one of the seeds seedFromPrompt makes up when the prompt is left empty
SeedRun7 == [str |-> <<82, 85, 78, 45, 55>>]
Seeds == {SeedRun001} \cup {[num |-> n] : n \in 1..MaxSeed}
\* what seedFromPrompt returns
PromptSeeds == {SeedRun001, SeedRun7}

\* the values of the page's mode select
Modes == {"life", "starter_10k", "starter_100k", "starter_1m"}

\* the initialState the page passes to createGame for a mode
initialStateForMode(mode) ==
    CASE mode = "starter_10k" ->
           [cash |-> USD(10000), invested |-> USD(0), debt |-> USD(0),
            income |-> USD(0), expenses |-> USD(0), stress |-> 15, burnout |-> 0]
      [] mode = "starter_100k" ->
           [cash |-> USD(100000), invested |-> USD(0), debt |-> USD(0),
            income |-> USD(0), expenses |-> USD(0), stress |-> 15, burnout |-> 0]
      [] mode = "starter_1m" ->
           [cash |-> USD(1000000), invested |-> USD(0), debt |-> USD(0),
            income |-> USD(0), expenses |-> USD(0), stress |-> 15, burnout |-> 0]
      [] OTHER ->
           [cash |-> USD(9000), debt |-> USD(15000), income |-> USD(54000),
            expenses |-> USD(38000), stress |-> 25, burnout |-> 0]

\* initial-state overrides given to runSimulation and createGame: those of the
\* page's four modes, a strained household close to every ending, and a
\* household with sound finances close to the burnout ending only
ConfigLife == initialStateForMode("life")
ConfigStarter10k == initialStateForMode("starter_10k")
ConfigStarter100k == initialStateForMode("starter_100k")
ConfigStarter1m == initialStateForMode("starter_1m")
ConfigStrained ==
    [cash |-> USD(2600), invested |-> USD(20000), debt |-> USD(68000),
     income |-> USD(30000), expenses |-> USD(42000), stress |-> 88, burnout |-> 78,
     discipline |-> N0_6]
ConfigWornOut ==
    [cash |-> USD(30000), invested |-> USD(50000), debt |-> USD(0),
     income |-> USD(60000), expenses |-> USD(40000), stress |-> 70, burnout |-> 97,
     year |-> 7]
Configs ==
    {ConfigLife, ConfigStarter10k, ConfigStarter100k, ConfigStarter1m,
     ConfigStrained, ConfigWornOut}

Policies ==
    {"none", "lastTwo", "repeatFirst", "rareFirst", "fundTwice", "automateTwice",
     "careerOnly", "protectOnce"}

\* what the caller of playYear may pass: nothing, the same exhaust card twice,
\* cards with cooldowns, cards with requirements, a card whose effect can
\* decline, an id that is not in the catalog, more than two ids
ChoiceMenu ==
    { <<>>,
      <<"windfall_opportunity", "windfall_opportunity">>,
      <<"overtime_push", "career_move">>,
      <<"panic_sell", "debt_refi">>,
      <<"buy_rental", "insurance_upgrade">>,
      <<"start_business", "mystery_card", "do_nothing">> }

\* the ids tried when a year is stepped card by card: the two cards whose
\* effect can decline, cards that spend cash, an exhaust card, a card with a
\* cooldown, an id that is not in the catalog
CardMenu ==
    {"start_business", "house_hack", "side_hustle", "index_investing",
     "panic_sell", "overtime_push", "mystery_card"}

---------------------------------------------------------------------------
(* The run drivers as a state machine *)

VARIABLES
    seed,         \* the seed of the run
    config,       \* the initialState argument
    driver,       \* "sim" (runSimulation), "game" (a caller of createGame),
                  \* "page" (the page and its buttons), "cards" (stepYear
                  \* card by card), "calls" (the exported functions one by one)
    years,        \* the years argument
    policy,       \* the policy argument of runSimulation
    state,        \* the State object of the run
    rng,          \* the generator word of the run
    pc,           \* position of the driver; of a game: "created" after
                  \* createGame, "played" after playYear
    i,            \* loop counter of runSimulation / number of calls made
    currentHand,  \* ids of the hand on display
    chosen,       \* the chosenCardIds the driver passed to its last year step
    attempts      \* the applyCard calls of the year in progress, each with
                  \* the State before and after it

vars == <<seed, config, driver, years, policy, state, rng, pc, i, currentHand,
          chosen, attempts>>

args == <<seed, config, driver, years, policy>>

\* the run is driven through a game object
InGame == driver \in {"game", "page"}

\* the step replaces the game in use by a newly created one
NewGameMade == pc' = "created"

\* one iteration of the for loop of runSimulation
simIteration(s, g, p) ==
    Let(drawHand(s, g, DefaultOpts), LAMBDA h :
    Let(policyChoice(p, s, h.hand), LAMBDA ids :
    Let(stepYear(s, h.g, ids), LAMBDA y :
        [s |-> y.s, g |-> y.g, hand |-> h.hand, chosen |-> ids,
         break |-> isEnding(y.s)])))

\* createGame: the run is set up and the first hand is drawn
createGame(sd, initialState) ==
    Let(newRun(sd, initialState), LAMBDA r :
    Let(drawHand(r.s, r.g, DefaultOpts), LAMBDA h :
        [s |-> r.s, g |-> h.g, currentHand |-> h.hand]))

InitSim ==
    /\ driver = "sim"
    /\ seed \in Seeds \cup PromptSeeds
    /\ config \in Configs
    /\ years \in 1..MaxYears
    /\ policy \in Policies
    /\ state = newRun(seed, config).s
    /\ rng = newRun(seed, config).g
    /\ pc = "loop"
    /\ i = 0
    /\ currentHand = <<>>
    /\ chosen = <<>>
    /\ attempts = <<>>

\* a caller of createGame: `years` is kept for restart and read by nothing
\* else, so the game is created with the smallest value, the one the number
\* of years played passes first
InitGame ==
    /\ driver = "game"
    /\ seed \in Seeds
    /\ config \in Configs
    /\ years = 1
    /\ policy = "none"
    /\ Let(createGame(seed, config), LAMBDA r :
           state = r.s /\ rng = r.g /\ currentHand = r.currentHand)
    /\ pc = "created"
    /\ i = 0
    /\ chosen = <<>>
    /\ attempts = <<>>

\* the page boots: startNewRun("RUN-001") in the mode saved by an earlier visit
InitPage ==
    /\ driver = "page"
    /\ seed = SeedRun001
    /\ config \in {initialStateForMode(mode) : mode \in Modes}
    /\ years = PageYears
    /\ policy = "none"
    /\ Let(createGame(seed, config), LAMBDA r :
           state = r.s /\ rng = r.g /\ currentHand = r.currentHand)
    /\ pc = "created"
    /\ i = 0
    /\ chosen = <<>>
    /\ attempts = <<>>

Init == InitSim \/ InitGame \/ InitPage

\* runSimulation: one pass of the loop body, including the ending checks
SimYear ==
    /\ driver = "sim" /\ pc = "loop" /\ i < years
    /\ Let(simIteration(state, rng, policy), LAMBDA r :
           /\ state' = r.s
           /\ rng' = r.g
           /\ currentHand' = r.hand
           /\ chosen' = r.chosen
           /\ IF r.break THEN pc' = "returned" /\ i' = i
                         ELSE pc' = pc /\ i' = i + 1)
    /\ UNCHANGED <<args, attempts>>

\* runSimulation: the loop condition fails and the function returns
SimReturn ==
    /\ driver = "sim" /\ pc = "loop" /\ i >= years
    /\ pc' = "returned"
    /\ UNCHANGED <<args, state, rng, i, currentHand, chosen, attempts>>

\* game.playYear(chosenCardIds): the year is stepped and the next hand drawn
PlayYear(chosenCardIds) ==
    /\ pc \in {"created", "played"}
    /\ Let(playYear(state, rng, chosenCardIds), LAMBDA r :
           /\ state' = r.s
           /\ rng' = r.g
           /\ currentHand' = r.currentHand)
    /\ chosen' = chosenCardIds
    /\ pc' = "played"
    /\ UNCHANGED <<args, i, attempts>>

\* the game in use is replaced by a new game with seed sd and overrides cfg
NewGame(sd, cfg) ==
    /\ pc \in {"created", "played"}
    /\ seed' = sd
    /\ config' = cfg
    /\ Let(createGame(sd, cfg), LAMBDA r :
           /\ state' = r.s
           /\ rng' = r.g
           /\ currentHand' = r.currentHand)
    /\ chosen' = <<>>
    /\ pc' = "created"
    /\ UNCHANGED <<driver, years, policy, i, attempts>>

\* a caller of createGame plays a year with ids of its choice
PlayChosen ==
    /\ driver = "game"
    /\ Len(state.history) < MaxCalls
    /\ \E ids \in ChoiceMenu : PlayYear(ids)

\* game.restart(newSeed): the caller goes on with the game it returns, made
\* with the same initialState and years
GameRestart ==
    /\ driver = "game"
    /\ \E newSeed \in Seeds : NewGame(newSeed, config)

\* what the clicks on the cards of the hand can leave in `selected` when it
\* holds two ids: any two cards of the hand, in the order clicked
\* (toggleSelect keeps the two latest clicks; playYear and startNewRun clear
\* the selection)
Selections(hand) ==
    {<<hand[a], hand[b]>> : a \in 1..Len(hand), b \in 1..Len(hand)} \
        {<<hand[a], hand[a]>> : a \in 1..Len(hand)}

\* the page's End Year button, which acts when two cards are selected
EndYearClicked ==
    /\ driver = "page"
    /\ Len(state.history) < MaxPageYears
    /\ \E selected \in Selections(currentHand) : PlayYear(selected)

\* the ids the page's Skip button plays: "do_nothing" and the first other card
\* of the hand on display
skipChoice(hand) ==
    LET others == SelectSeq(hand, LAMBDA id : id # "do_nothing")
    IN  <<"do_nothing", IF others # <<>> THEN others[1] ELSE "do_nothing">>

\* the page's Skip button
SkipClicked ==
    /\ driver = "page"
    /\ Len(state.history) < MaxPageYears
    /\ PlayYear(skipChoice(currentHand))

\* the page's New Run button: startNewRun(seedFromPrompt()) in the mode
\* selected (with the seed of the game in use it is the step of ResetClicked)
NewRunClicked ==
    /\ driver = "page"
    /\ \E sd \in PromptSeeds \ {seed} : NewGame(sd, config)

\* the page's Reset button: startNewRun(game.seed)
ResetClicked ==
    /\ driver = "page"
    /\ NewGame(seed, config)

\* the mode select changes to another mode: startNewRun(game.seed)
ModeChanged ==
    /\ driver = "page"
    /\ \E mode \in Modes :
          /\ initialStateForMode(mode) # config
          /\ NewGame(seed, initialStateForMode(mode))

Next ==
    \/ SimYear \/ SimReturn
    \/ PlayChosen \/ GameRestart
    \/ EndYearClicked \/ SkipClicked \/ NewRunClicked \/ ResetClicked \/ ModeChanged

Spec == Init /\ [][Next]_vars

---------------------------------------------------------------------------
(* stepYear seen card by card *)

\* a caller of the exported stepYear, on a run set up as runSimulation and
\* createGame do or on a bare createInitialState State (nothing unlocked)
InitCards ==
    /\ driver = "cards"
    /\ seed \in Seeds
    /\ config \in Configs
    /\ years = MaxCardYears
    /\ policy = "none"
    /\ state \in {newRun(seed, config).s, createInitialState(config)}
    /\ rng = createRng(seed)
    /\ pc = "idle"
    /\ i = 0
    /\ currentHand = <<>>
    /\ chosen = <<>>
    /\ attempts = <<>>

\* stepYear is entered: ledger ensured, log cleared, cooldowns ticked
BeginYear ==
    /\ driver = "cards" /\ pc = "idle"
    /\ Len(state.history) < MaxCardYears
    /\ state' = beginYear(state)
    /\ pc' = "cards"
    /\ attempts' = <<>>
    /\ UNCHANGED <<args, rng, i, currentHand, chosen>>

\* one pass of the card loop of stepYear (at most two picks are played)
AttemptCard(id) ==
    /\ driver = "cards" /\ pc = "cards"
    /\ Len(attempts) < 2
    /\ Let(applyCard(state, rng, id), LAMBDA a :
           /\ state' = logCard(a, id).s
           /\ rng' = a.g
           /\ attempts' = Append(attempts,
                  [id |-> id, before |-> state, after |-> a.s,
                   gBefore |-> rng, gAfter |-> a.g, res |-> a.res]))
    /\ UNCHANGED <<args, pc, i, currentHand, chosen>>

TryCard == \E id \in CardMenu : AttemptCard(id)

\* the rest of stepYear once the picks are played
EndYear ==
    /\ driver = "cards" /\ pc = "cards"
    /\ Let(finishYear(state, rng,
                      [k \in 1..Len(attempts) |-> attempts[k].id],
                      [k \in 1..Len(attempts) |-> attempts[k].res]), LAMBDA y :
           state' = y.s /\ rng' = y.g)
    /\ pc' = "idle"
    /\ UNCHANGED <<args, i, currentHand, chosen, attempts>>

NextCards == BeginYear \/ TryCard \/ EndYear

SpecCards == InitCards /\ [][NextCards]_vars

---------------------------------------------------------------------------
(* Properties of the run drivers *)

History == state.history

\* <<k, j>>: the j-th card result of the k-th year is a success of card id
Successes(id) ==
    {kj \in {<<k, j>> : k \in 1..Len(History), j \in 1..2} :
        /\ kj[2] <= Len(History[kj[1]].cardResults)
        /\ History[kj[1]].cardResults[kj[2]].card = id
        /\ History[kj[1]].cardResults[kj[2]].ok}

\* years (history indices) in which card id was applied with ok:true
SuccessYears(id) == {kj[1] : kj \in Successes(id)}

LastSuccessYear(id) == CHOOSE k \in SuccessYears(id) : \A m \in SuccessYears(id) : m <= k

ExhaustIds == {CARDS[n].id : n \in {m \in 1..Len(CARDS) : CARDS[m].exhaust}}
CooldownIds == {CARDS[n].id : n \in {m \in 1..Len(CARDS) : CARDS[m].cooldownYears > 0}}

\* C1: in any run, a card flagged exhaust (panic_sell, windfall_opportunity)
\* is applied with result ok:true at most once, also when the same id is
\* chosen twice in one year.
C1_ExhaustAtMostOnce ==
    \A id \in ExhaustIds : Cardinality(Successes(id)) <= 1

\* an exhaust card succeeded and a second attempt in the same year was refused
C1_Witness ==
    \E k \in 1..Len(History) :
        /\ Len(History[k].cardResults) = 2
        /\ History[k].cardResults[1].card \in ExhaustIds
        /\ History[k].cardResults[1].ok
        /\ History[k].chosenCardIds[2] = History[k].cardResults[1].card
        /\ ~History[k].cardResults[2].ok
        /\ History[k].cardResults[2].reason = "Card not playable (cooldown/exhaust/requirements)."

\* C2: after a card with cooldownYears = N is successfully applied in year Y,
\* it is not successfully applied again in any of the years Y+1 .. Y+N.
C2_BlockedForNYears ==
    \A id \in CooldownIds : \A y \in SuccessYears(id) : \A k \in SuccessYears(id) :
        ~(y < k /\ k <= y + CardById(id).cooldownYears)

\* ticks of the cooldown ledger since the last successful application of id
\* (one tick at the start of every later year)
TicksSince(id) == Len(History) - LastSuccessYear(id)

\* C3 as stated: the entry set to N is gone after N-1 calls of tickCooldowns
\* (and present before that).
C3_GoneAfterNMinus1Ticks ==
    \A id \in CooldownIds :
        SuccessYears(id) # {} =>
            (id \in DOMAIN state.runMeta.cooldowns
                <=> TicksSince(id) < CardById(id).cooldownYears - 1)

\* C3 amended: a cooldown entry set to N by a successful application survives
\* the next N-1 calls of tickCooldowns (its counter is N - t after t ticks) and
\* is removed by the N-th call; cards never applied have no entry.
C3_GoneAfterNTicks ==
    \A id \in CardIds :
        IF id \in CooldownIds /\ SuccessYears(id) # {}
              /\ TicksSince(id) < CardById(id).cooldownYears
        THEN /\ id \in DOMAIN state.runMeta.cooldowns
             /\ state.runMeta.cooldowns[id] = CardById(id).cooldownYears - TicksSince(id)
        ELSE id \notin DOMAIN state.runMeta.cooldowns

\* a card with a cooldown of three years, three ticks after its application:
\* the third tick removed the entry and the card is playable again
C3_Witness ==
    \E id \in CooldownIds :
        /\ CardById(id).cooldownYears = 3
        /\ SuccessYears(id) # {}
        /\ TicksSince(id) = 3
        /\ id \notin DOMAIN state.runMeta.cooldowns
        /\ isCardPlayable(state, CardById(id))

\* C4: starting from a state built by createInitialState with the gauges in
\* range, after every year step 0 <= stress, burnout <= 100 and
\* 0 <= risk, discipline <= 1.
C4_GaugesInRange ==
    /\ 0 <= state.stress /\ state.stress <= 100
    /\ 0 <= state.burnout /\ state.burnout <= 100
    /\ DLe(DZero, state.risk) /\ DLe(state.risk, DOne)
    /\ DLe(DZero, state.discipline) /\ DLe(state.discipline, DOne)

\* a year step has ended with stress held at its ceiling
C4_Witness == Len(History) >= 1 /\ state.stress = 100

\* the ending conditions as the spec words them
EndingReached(s) ==
    \/ DLt(DSub(DSub(DAdd(DAdd(s.cash, s.invested), USD(s.rentalUnits * 15000)), s.debt),
                 s.flags.medicalDebt),
            USD(-50000))
    \/ s.stress >= 100
    \/ s.burnout >= 100

\* C6: runSimulation steps at most `years` years and performs no further year
\* step once an ending condition holds after a completed step; it returns with
\* `years` snapshots or, earlier, with an ending condition reached.
C6_SimInv ==
    driver = "sim" =>
        /\ Len(History) <= years
        /\ (pc = "returned" => (Len(History) = years \/ EndingReached(state)))
        /\ (pc = "returned" /\ Len(History) < years => EndingReached(state))

C6_SimNoStepAfterEnding ==
    (driver = "sim" /\ Len(History) >= 1 /\ EndingReached(state))
        => (state' = state /\ rng' = rng)

C6_SimStopsAtEnding == []C6_SimInv /\ [][C6_SimNoStepAfterEnding]_vars

\* the run returned early: fewer snapshots than `years`, ending reached
C6_Witness ==
    driver = "sim" /\ pc = "returned" /\ Len(History) >= 1 /\ Len(History) < years
        /\ EndingReached(state)

\* C7: a run driven through createGame({years}) never holds more than `years`
\* snapshots and never steps another year after a year that ended with net
\* worth below -50000 or stress or burnout at 100.
C7_GameEnforcesEndings ==
    InGame =>
        /\ Len(History) <= years
        /\ \A k \in 1..(Len(History) - 1) :
              /\ History[k].netWorth >= -50000
              /\ History[k].stress < 100
              /\ History[k].burnout < 100

HasLog(snap, type, title) ==
    \E n \in 1..Len(snap.log) : snap.log[n].type = type /\ snap.log[n].title = title

\* C8: for any chosen ids the year step completes: one result per pick (at
\* most two), every failed attempt recorded with ok:false and a reason, the
\* event, interest and market stages logged after the cards, and exactly one
\* snapshot per year.
C8_SnapshotComplete(snap) ==
    /\ Len(snap.chosenCardIds) <= 2
    /\ Len(snap.cardResults) = Len(snap.chosenCardIds)
    /\ \A j \in 1..Len(snap.cardResults) :
          /\ snap.cardResults[j].card \in {snap.chosenCardIds[j], "undefined"}
          /\ (snap.cardResults[j].ok => snap.cardResults[j].card = snap.chosenCardIds[j])
          /\ (snap.chosenCardIds[j] \notin CardIds => snap.cardResults[j].card = "undefined")
          /\ (~snap.cardResults[j].ok => snap.cardResults[j].reason # "")
          /\ snap.log[j].type = "card" /\ snap.log[j].id = snap.chosenCardIds[j]
          /\ snap.log[j].ok = snap.cardResults[j].ok
    /\ Len(snap.log) >= Len(snap.cardResults) + 2
    /\ (snap.event # NullEvent =>
           /\ snap.log[Len(snap.cardResults) + 1].type = "event"
           /\ snap.log[Len(snap.cardResults) + 1].id = snap.event.id)
    /\ HasLog(snap, "system", "Debt Interest")
    /\ snap.log[Len(snap.log)].type = "market" \/ snap.log[Len(snap.log) - 1].type = "market"

C8_Inv ==
    /\ \A k \in 1..Len(History) :
          C8_SnapshotComplete(History[k]) /\ History[k].year = History[1].year + k - 1
    /\ (Len(History) >= 1 => state.year = History[Len(History)].year + 1)

C8_OneSnapshotPerStep ==
    (state' # state /\ ~NewGameMade) =>
        /\ Len(state'.history) = Len(History) + 1
        /\ SubSeq(state'.history, 1, Len(History)) = History

C8_PipelineCompletes == []C8_Inv /\ [][C8_OneSnapshotPerStep]_vars

\* a year in which an unknown id and a declined effect were both recorded as
\* failures and the year still closed with its snapshot
C8_Witness ==
    \E k \in 1..Len(History) :
        /\ Len(History[k].cardResults) = 2
        /\ ~History[k].cardResults[1].ok /\ ~History[k].cardResults[2].ok
        /\ History[k].cardResults[2].reason = "Unknown card."
        /\ History[k].event # NullEvent
        /\ C8_SnapshotComplete(History[k])

---------------------------------------------------------------------------
(* Properties of single applyCard calls *)

\* the reasons for which applyCard refuses a card before running its effect
Ineligible(a) ==
    \/ a.id \notin CardIds
    \/ a.id \notin a.before.runMeta.unlocked
    \/ a.id \in a.before.runMeta.exhausted
    \/ a.id \in DOMAIN a.before.runMeta.cooldowns
    \/ ~cardRequires(a.id, a.before)

StateFields(s) ==
    <<s.cash, s.invested, s.debt, s.income, s.expenses, s.stress, s.burnout,
      s.risk, s.discipline, s.rentalUnits, s.sideHustleLevel,
      s.flags>>

Ledger(s) == <<s.runMeta.unlocked, s.runMeta.exhausted, s.runMeta.cooldowns>>

\* C9: applyCard on an ineligible card (unknown id, not unlocked, exhausted,
\* cooling down, requires false) returns ok:false with a reason and leaves
\* every State field and the unlocked / exhausted / cooldowns ledger unchanged.
C9_IneligibleLeavesState ==
    \A k \in 1..Len(attempts) :
        Ineligible(attempts[k]) =>
            /\ ~attempts[k].res.ok
            /\ attempts[k].res.reason # ""
            /\ StateFields(attempts[k].after) = StateFields(attempts[k].before)
            /\ Ledger(attempts[k].after) = Ledger(attempts[k].before)

\* a card was applied and changed the State; the same card, now cooling down
\* or exhausted, was refused right after
C9_Witness ==
    /\ Len(attempts) = 2
    /\ attempts[1].res.ok
    /\ StateFields(attempts[1].after) # StateFields(attempts[1].before)
    /\ attempts[2].id = attempts[1].id
    /\ Ineligible(attempts[2])
    /\ ~attempts[2].res.ok

\* C10: when the effect of a playable card declines, applyCard leaves the
\* State fields and flags unchanged and marks neither cooldown nor exhaust, so
\* the card stays playable; the ledger changes only on ok:true.
C10_DeclineLeavesState ==
    \A k \in 1..Len(attempts) :
        /\ (~Ineligible(attempts[k]) /\ ~attempts[k].res.ok) =>
              /\ attempts[k].res.reason # ""
              /\ StateFields(attempts[k].after) = StateFields(attempts[k].before)
              /\ attempts[k].id \notin DOMAIN attempts[k].after.runMeta.cooldowns
              /\ attempts[k].id \notin attempts[k].after.runMeta.exhausted
              /\ isCardPlayable(attempts[k].after, CardById(attempts[k].id))
        /\ (Ledger(attempts[k].after) # Ledger(attempts[k].before) => attempts[k].res.ok)

\* a playable start_business or house_hack drew its cost and declined
C10_Witness ==
    \E k \in 1..Len(attempts) :
        /\ attempts[k].id \in {"start_business", "house_hack"}
        /\ ~Ineligible(attempts[k])
        /\ ~attempts[k].res.ok
        /\ attempts[k].gAfter # attempts[k].gBefore

---------------------------------------------------------------------------
(* Properties of the hand offered during a run *)

\* a hand is on offer: createGame drew one at construction and after every
\* playYear; runSimulation drew one at the head of every iteration
HandOffered == InGame \/ (driver = "sim" /\ Len(History) >= 1)

\* C11: the hand offered each year of a run (default options, full catalog
\* unlocked) holds between 6 and 8 cards, also in the starter modes and with
\* cards on cooldown.
C11_HandSixToEight ==
    HandOffered => (Len(currentHand) >= 6 /\ Len(currentHand) <= 8)

\* C20: in every year of a run the cooldown ledger is ticked before the
\* year's hand is drawn as well as before the chosen cards are applied: the
\* ledger the hand of the coming year is drawn from (the current state) is the
\* ledger the cards of that year are applied to (the state after the head of
\* stepYear).
C20_HandDrawnAfterTick ==
    ((driver = "sim" /\ pc = "loop" /\ i < years) \/ InGame)
        => beginYear(state).runMeta.cooldowns = state.runMeta.cooldowns

---------------------------------------------------------------------------
(* The functions of the engine called one by one *)

\* largest number of calls made in a row on one State
MaxCallDepth == 2

\* the destructuring of opts in drawHand: an omitted option takes its default
optsWithDefaults(opts) ==
    [k \in DOMAIN DefaultOpts |-> IF k \in DOMAIN opts THEN opts[k] ELSE DefaultOpts[k]]

\* the caller's side of persistence: the Sets of the ledger written out as
\* arrays of ids and the Map as an object (its entries), in catalog order
serializeRunMeta(meta) ==
    LET ids == [n \in 1..Len(CARDS) |-> CARDS[n].id]
        keys == SelectSeq(ids, LAMBDA id : id \in DOMAIN meta.cooldowns)
    IN  [present |-> TRUE,
         plain |-> {"unlocked", "exhausted", "cooldowns"},
         unlocked |-> SelectSeq(ids, LAMBDA id : id \in meta.unlocked),
         exhausted |-> SelectSeq(ids, LAMBDA id : id \in meta.exhausted),
         cooldowns |-> [k \in 1..Len(keys) |-> <<keys[k], meta.cooldowns[keys[k]]>>]]

\* initial-state overrides tried call by call: life mode, starter_10k mode,
\* a household without cash or income, overrides outside the documented
\* ranges, and a small balance sheet with one rental unit
ConfigShortfall ==
    [cash |-> USD(0), debt |-> USD(0), income |-> USD(0), expenses |-> USD(1000)]
ConfigOutOfRange ==
    [stress |-> 150, risk |-> USD(2)]
ConfigSmall ==
    [cash |-> USD(100), invested |-> USD(50), debt |-> USD(30), rentalUnits |-> 1]
CallConfigs == {ConfigLife, ConfigStarter10k, ConfigShortfall, ConfigOutOfRange, ConfigSmall}

\* options passed to drawHand: none, a small maxHand, a small composition,
\* sure rare and wildcard draws
OptsMenu ==
    { <<>>,
      [maxHand |-> 4],
      [maxHand |-> 6],
      [commons |-> 1, uncommons |-> 0],
      [maxHand |-> 4, includeRareChance |-> USD(1), includeWildChance |-> USD(1)] }

\* the picks passed to stepYear
StepMenu ==
    { <<"career_move", "windfall_opportunity">>,
      <<"build_emergency_fund", "overtime_push">> }

\* the ids passed to applyCard: a card with a cooldown whose effect draws from
\* the generator and can decline, an id that is not in the catalog
ApplyMenu == {"start_business", "mystery_card"}

\* the States netWorth is called on: the State itself, the State with a
\* medical debt of 20, and objects without flags, without flags.medicalDebt
\* or without rentalUnits
NetWorthViews == {"state", "medicalDebt20", "noFlags", "noMedicalDebt", "noRentalUnits"}

Without(f, k) == [x \in DOMAIN f \ {k} |-> f[x]]

netWorthArg(s, view) ==
    CASE view = "state" -> s
      [] view = "medicalDebt20" -> [s EXCEPT !.flags.medicalDebt = USD(20)]
      [] view = "noFlags" -> Without(s, "flags")
      [] view = "noMedicalDebt" -> [s EXCEPT !.flags = Without(@, "medicalDebt")]
      [] view = "noRentalUnits" -> Without(s, "rentalUnits")

\* a State as createInitialState returns it, or set up as runSimulation and
\* createGame do
InitCalls ==
    /\ driver = "calls"
    /\ seed \in Seeds
    /\ config \in CallConfigs
    /\ years = MaxCallDepth
    /\ policy = "none"
    /\ state \in {createInitialState(config), newRun(seed, config).s}
    /\ rng = createRng(seed)
    /\ pc = "idle"
    /\ i = 0
    /\ currentHand = <<>>
    /\ chosen = <<>>
    /\ attempts = <<>>

\* the guard and the bookkeeping shared by the calls: attempts holds the
\* record of the last call
Called(rec) ==
    /\ driver = "calls" /\ pc = "idle" /\ i < MaxCallDepth
    /\ i' = i + 1
    /\ attempts' = <<rec>>
    /\ UNCHANGED <<args, pc, chosen>>

CallCreateInitialState ==
    /\ state' = createInitialState(config)
    /\ Called([fn |-> "createInitialState", config |-> config,
               result |-> createInitialState(config)])
    /\ UNCHANGED <<rng, currentHand>>

CallNetWorth(view) ==
    /\ Called([fn |-> "netWorth", view |-> view, arg |-> netWorthArg(state, view),
               result |-> netWorth(netWorthArg(state, view))])
    /\ UNCHANGED <<state, rng, currentHand>>

CallEnsureRunMeta ==
    /\ state' = ensureRunMeta(state)
    /\ Called([fn |-> "ensureRunMeta", before |-> state, after |-> ensureRunMeta(state)])
    /\ UNCHANGED <<rng, currentHand>>

\* the caller stores the ledger and restores it in plain form
CallerRestore ==
    /\ state.runMeta.present /\ state.runMeta.plain = {}
    /\ state' = [state EXCEPT !.runMeta = serializeRunMeta(@)]
    /\ Called([fn |-> "restore", before |-> state,
               after |-> [state EXCEPT !.runMeta = serializeRunMeta(@)]])
    /\ UNCHANGED <<rng, currentHand>>

CallApplyYearlyCashflow ==
    /\ state' = applyYearlyCashflow(state)
    /\ Called([fn |-> "applyYearlyCashflow", before |-> state,
               after |-> applyYearlyCashflow(state)])
    /\ UNCHANGED <<rng, currentHand>>

\* drawHand asks isCardPlayable, which attaches / normalizes the ledger
CallDrawHand(opts) ==
    /\ Let(drawHand(state, rng, optsWithDefaults(opts)), LAMBDA h :
           /\ currentHand' = h.hand
           /\ rng' = h.g
           /\ Called([fn |-> "drawHand", opts |-> optsWithDefaults(opts),
                      before |-> state, hand |-> h.hand]))
    /\ state' = ensureRunMeta(state)

CallStepYear(ids) ==
    /\ Let(stepYear(state, rng, ids), LAMBDA y :
           /\ state' = y.s
           /\ rng' = y.g
           /\ Called([fn |-> "stepYear", before |-> state, ids |-> ids]))
    /\ UNCHANGED currentHand

\* a direct call of applyCard
CallApplyCard(id) ==
    /\ Let(applyCard(state, rng, id), LAMBDA a :
           /\ state' = a.s
           /\ rng' = a.g
           /\ Called([fn |-> "applyCard", id |-> id, before |-> state,
                      after |-> a.s, res |-> a.res]))
    /\ UNCHANGED currentHand

NetWorthCalls == \E view \in NetWorthViews : CallNetWorth(view)
DrawHandCalls == \E opts \in OptsMenu : CallDrawHand(opts)
StepYearCalls == \E ids \in StepMenu : CallStepYear(ids)
ApplyCardCalls == \E id \in ApplyMenu : CallApplyCard(id)

NextCalls ==
    \/ CallCreateInitialState
    \/ NetWorthCalls
    \/ CallEnsureRunMeta
    \/ CallerRestore
    \/ CallApplyYearlyCashflow
    \/ DrawHandCalls
    \/ ApplyCardCalls
    \/ StepYearCalls

SpecCalls == InitCalls /\ [][NextCalls]_vars

\* the record of the last call, when it was a call of fn
LastCall(fn) == driver = "calls" /\ attempts # <<>> /\ attempts[1].fn = fn

---------------------------------------------------------------------------
(* Properties of single drawHand calls *)

\* the ids of the common cards that are playable in state s
PlayableCommons(s) ==
    {CARDS[n].id : n \in {m \in 1..Len(CARDS) :
                             CARDS[m].rarity = "common" /\ isCardPlayable(s, CARDS[m])}}

HandIds(hand) == {hand[k] : k \in 1..Len(hand)}

\* C12: for every state and every options object, drawHand returns at most
\* maxHand cards, also when maxHand is smaller than commons + uncommons + 2.
C12_AtMostMaxHand ==
    LastCall("drawHand") => Len(attempts[1].hand) <= attempts[1].opts.maxHand

\* C13: if the rarity and wildcard draws yield fewer than min(maxHand, 6)
\* cards, drawHand tops the hand up with playable, not-yet-drawn commons until
\* the hand has min(maxHand, 6) cards or no such common is left.
C13_ToppedUpToSix ==
    LastCall("drawHand") =>
        \/ Len(attempts[1].hand) >= Min(attempts[1].opts.maxHand, 6)
        \/ PlayableCommons(attempts[1].before) \subseteq HandIds(attempts[1].hand)

\* C14: every hand returned by drawHand holds no card id twice and only
\* cards that satisfy isCardPlayable in the state the hand was drawn from.
C14_DistinctAndPlayable ==
    LastCall("drawHand") =>
        /\ Cardinality(HandIds(attempts[1].hand)) = Len(attempts[1].hand)
        /\ \A id \in HandIds(attempts[1].hand) :
               id \in CardIds /\ isCardPlayable(attempts[1].before, CardById(id))

\* a hand with a rare card, a wildcard and topped-up commons, drawn from a
\* state in which some unlocked card is not playable
C14_Witness ==
    /\ LastCall("drawHand")
    /\ Len(attempts[1].hand) >= 6
    /\ \E id \in HandIds(attempts[1].hand) : CardById(id).rarity = "rare"
    /\ \E id \in HandIds(attempts[1].hand) : CardById(id).type = "wildcard"
    /\ attempts[1].before.runMeta.cooldowns # <<>>

---------------------------------------------------------------------------
(* Properties of the State helpers *)

\* C15: isCardPlayable(state, card) is true if and only if the card id is in
\* the unlocked set, is not in the exhausted set, has no entry in the
\* cooldowns map, and the card's requires predicate is true for the state
\* (read off the ledger of the state when it is absent or held as Sets / Map).
C15_PlayableIff ==
    (driver = "calls" /\ state.runMeta.plain = {}) =>
        \A n \in 1..Len(CARDS) :
            isCardPlayable(state, CARDS[n])
                <=> /\ state.runMeta.present
                    /\ CARDS[n].id \in state.runMeta.unlocked
                    /\ CARDS[n].id \notin state.runMeta.exhausted
                    /\ CARDS[n].id \notin DOMAIN state.runMeta.cooldowns
                    /\ cardRequires(CARDS[n].id, state)

\* a state in which one card is playable, one is refused only for its
\* cooldown entry, one only for being exhausted and one only for its requires
C15_Witness ==
    /\ driver = "calls" /\ state.runMeta.plain = {} /\ state.runMeta.present
    /\ \E n \in 1..Len(CARDS) : isCardPlayable(state, CARDS[n])
    /\ \E n \in 1..Len(CARDS) :
           /\ CARDS[n].id \in DOMAIN state.runMeta.cooldowns
           /\ CARDS[n].id \in state.runMeta.unlocked \ state.runMeta.exhausted
           /\ cardRequires(CARDS[n].id, state)
    /\ \E n \in 1..Len(CARDS) :
           /\ CARDS[n].id \in state.runMeta.exhausted
           /\ CARDS[n].id \in state.runMeta.unlocked
           /\ CARDS[n].id \notin DOMAIN state.runMeta.cooldowns
           /\ cardRequires(CARDS[n].id, state)
    /\ \E n \in 1..Len(CARDS) :
           /\ CARDS[n].id \in state.runMeta.unlocked \ state.runMeta.exhausted
           /\ CARDS[n].id \notin DOMAIN state.runMeta.cooldowns
           /\ ~cardRequires(CARDS[n].id, state)

\* C16: netWorth(state) equals cash + invested + rentalUnits * 15000 - debt
\* - medicalDebt, a missing flags object, medicalDebt or rentalUnits counting
\* as 0 (15100 for cash 100, invested 50, one rental unit, debt 30, medical
\* debt 20), and the call changes nothing in the state.
C16_NetWorthInv ==
    LastCall("netWorth") =>
        LET a == attempts[1].arg
            units == IF attempts[1].view = "noRentalUnits" THEN 0 ELSE a.rentalUnits
            medical == IF attempts[1].view \in {"noFlags", "noMedicalDebt"} THEN USD(0)
                       ELSE a.flags.medicalDebt
        IN  /\ attempts[1].result
                  = DSub(DSub(DAdd(DAdd(a.cash, a.invested), USD(units * 15000)), a.debt),
                         medical)
            /\ (config = ConfigSmall /\ i = 1 /\ attempts[1].view = "medicalDebt20")
                  => attempts[1].result = USD(15100)

C16_NetWorthPure ==
    (driver = "calls" /\ attempts' # <<>> /\ attempts'[1].fn = "netWorth")
        => state' = state

C16_NetWorthFormula == []C16_NetWorthInv /\ [][C16_NetWorthPure]_vars

\* netWorth was called on the example of the claim
C16_Witness ==
    /\ LastCall("netWorth")
    /\ config = ConfigSmall /\ i = 1 /\ attempts[1].view = "medicalDebt20"
    /\ attempts[1].arg.rentalUnits = 1
    /\ attempts[1].result = USD(15100)

\* C17: createInitialState(config) applies the documented default for every
\* omitted field and clamps supplied overrides into their documented ranges:
\* the returned state has stress and burnout in [0, 100] and risk and
\* discipline in [0, 1].
C17_DefaultsAndClamping ==
    LastCall("createInitialState") =>
        LET r == attempts[1].result
        IN  /\ \A k \in DOMAIN DefaultConfig \ DOMAIN attempts[1].config :
                   r[k] = DefaultConfig[k]
            /\ r.stress >= 0 /\ r.stress <= 100
            /\ r.burnout >= 0 /\ r.burnout <= 100
            /\ DLe(DZero, r.risk) /\ DLe(r.risk, DOne)
            /\ DLe(DZero, r.discipline) /\ DLe(r.discipline, DOne)

\* C18: ensureRunMeta is idempotent and restores a serialized ledger: calling
\* it twice equals calling it once, it never discards existing entries, and a
\* ledger whose sets arrive as arrays of ids and whose cooldowns arrive as a
\* plain object is rehydrated to the same members and counters, so that
\* isCardPlayable answers the same for every card before serialization and
\* after restore.
C18_EnsureRunMeta ==
    driver = "calls" =>
        /\ ensureRunMeta(ensureRunMeta(state)) = ensureRunMeta(state)
        /\ (state.runMeta.present /\ state.runMeta.plain = {})
               => ensureRunMeta(state) = state
        /\ LastCall("restore") =>
               /\ attempts[1].after.runMeta.plain # {}
               /\ ensureRunMeta(attempts[1].after) = attempts[1].before
               /\ \A n \in 1..Len(CARDS) :
                      isCardPlayable(attempts[1].after, CARDS[n])
                          = isCardPlayable(attempts[1].before, CARDS[n])

\* a ledger with unlocked cards, an exhausted card and a cooldown entry went
\* through the plain form
C18_Witness ==
    /\ LastCall("restore")
    /\ attempts[1].before.runMeta.unlocked # {}
    /\ attempts[1].before.runMeta.exhausted # {}
    /\ attempts[1].before.runMeta.cooldowns # <<>>
    /\ state = attempts[1].after
    /\ \E n \in 1..Len(CARDS) : isCardPlayable(state, CARDS[n])

---------------------------------------------------------------------------
(* Properties of the economy *)

\* the shortfall after the emergency-fund buffer: floor(shortfall * (1 - 0.07 *
\* buff)) when buff > 0, unreduced when 0
Buffered(shortfall, buff) ==
    IF buff > 0 THEN DFloor(DMul(shortfall, DSub(DOne, DMul(N0_07, USD(buff)))))
    ELSE shortfall

\* C19: applyYearlyCashflow adds income - expenses to cash; if the result is
\* negative it sets cash to 0, adds 1.05 times the (buffered) shortfall to debt
\* and raises stress by 10, clamped at 100; otherwise debt and stress are
\* unchanged.  cash = 0, debt = 0, income = 0, expenses = 1000 without buffer
\* gives cash 0, debt 1050 and stress + 10.
C19_YearlyCashflow ==
    LastCall("applyYearlyCashflow") =>
        LET b == attempts[1].before
            a == attempts[1].after
            sum == DAdd(b.cash, DSub(b.income, b.expenses))
        IN  /\ IF DLt(sum, DZero)
               THEN /\ a.cash = DZero
                    /\ a.stress = Max(0, Min(100, b.stress + 10))
                    /\ a.debt = DAdd(b.debt,
                                     DMul(N1_05, Buffered(DNeg(sum), b.flags.emergencyFundBuff)))
               ELSE a.cash = sum /\ a.debt = b.debt /\ a.stress = b.stress
            /\ (config = ConfigShortfall /\ i = 1)
                   => (a.cash = DZero /\ a.debt = USD(1050) /\ a.stress = b.stress + 10)

\* a shortfall was rolled into debt after the emergency-fund buffer reduced it
C19_Witness ==
    /\ LastCall("applyYearlyCashflow")
    /\ DLt(DAdd(attempts[1].before.cash, attempts[1].before.income),
           attempts[1].before.expenses)
    /\ attempts[1].before.flags.emergencyFundBuff > 0
    /\ DGt(attempts[1].after.debt, attempts[1].before.debt)
    /\ attempts[1].after.stress = attempts[1].before.stress + 10

---------------------------------------------------------------------------
(* Properties of runs that draw one hand per year *)

\* the year (history index) the hand on offer was drawn for: createGame holds
\* the hand of the coming year, runSimulation the hand of the year just stepped
HandYear == IF InGame THEN Len(History) + 1 ELSE Len(History)

\* C21: in a run that draws one hand per year before that year's stepYear
\* (runSimulation, createGame), a card with cooldownYears = N applied
\* successfully in year Y is absent from the hands drawn for the years
\* Y+1 .. Y+N, and the state the hand of year Y+N+1 is drawn from holds no
\* cooldown entry for it: the card is playable again as far as its requires
\* predicate and the exhausted set allow.
C21_AbsentFromNextNHands ==
    \A id \in CooldownIds :
        /\ HandOffered =>
              \A y \in SuccessYears(id) :
                  (y < HandYear /\ HandYear <= y + CardById(id).cooldownYears)
                      => \A n \in 1..Len(currentHand) : currentHand[n] # id
        /\ (SuccessYears(id) # {}
              /\ Len(History) + 1 > LastSuccessYear(id) + CardById(id).cooldownYears)
              => (isCardPlayable(state, CardById(id))
                      <=> isCardPlayable_ignoreCooldowns(state, CardById(id)))

\* a card applied in year Y is back in the hand drawn for year Y+N+1, after
\* the hands of the years Y+1 .. Y+N were drawn without it
C21_Witness ==
    \E id \in CooldownIds :
        /\ HandOffered
        /\ CardById(id).cooldownYears = 3
        /\ SuccessYears(id) # {}
        /\ HandYear = LastSuccessYear(id) + CardById(id).cooldownYears + 1
        /\ \E n \in 1..Len(currentHand) : currentHand[n] = id

---------------------------------------------------------------------------
(* Properties of the choices played through createGame *)

\* a call of game.playYear has just returned
PlayedYear == InGame /\ Len(state'.history) = Len(state.history) + 1

\* C22: the cards of a year are chosen from the current hand: every card that
\* a call of playYear applies successfully is a member of the hand getHand()
\* returned immediately before the call; ids outside that hand are not applied.
C22_AppliedFromHand ==
    [][PlayedYear =>
          \A r \in HandIds(state'.history[Len(state'.history)].cardResults) :
              r.ok => r.card \in HandIds(currentHand)]_vars

---------------------------------------------------------------------------
(* Properties of one year step within a run *)

\* a year step has just been made by the run driver
YearStepped == Len(state'.history) = Len(state.history) + 1

\* the snapshot of the year just stepped
NewSnapshot == state'.history[Len(state'.history)]

\* the generator stepYear is entered with: runSimulation draws the hand first
StepRng == IF InGame THEN rng ELSE drawHand(state, rng, DefaultOpts).g

\* the State at the end of the card stage of the year just stepped
AfterCards == playCards(beginYear(state), StepRng, NewSnapshot.chosenCardIds, 1, <<>>).s

\* the log entries of a snapshot with the given type and title
LogEntries(snap, type, title) ==
    {n \in 1..Len(snap.log) : snap.log[n].type = type /\ snap.log[n].title = title}

\* C23: when the laidOff flag is set in a year's card stage (career_move
\* backfire) or event stage (layoff event), the same stepYear sets income to
\* floor(0.55 * income) exactly once, also when both set it, and clears the
\* flag: laidOff is false in every snapshot and after every year step, and a
\* layoff of a later year cuts the income as it then stands.
C23_LayoffCutsOnce ==
    [][YearStepped =>
          (\A c \in {AfterCards} :
              LET laidOff == c.flags.laidOff \/ NewSnapshot.event.id = "layoff"
              IN  /\ state'.income =
                        IF laidOff THEN DFloor(DMul(N0_55, c.income)) ELSE c.income
                  /\ Cardinality(LogEntries(NewSnapshot, "system", "Income Disruption"))
                        = (IF laidOff THEN 1 ELSE 0)
                  /\ NewSnapshot.income = Rounded(state'.income)
                  /\ ~NewSnapshot.flags.laidOff
                  /\ ~state'.flags.laidOff)]_vars

\* the income a year started from, in whole dollars
IncomeBefore(k) == IF k = 1 THEN Rounded(createInitialState(config).income)
                            ELSE History[k - 1].income

\* the year had an income disruption
Disrupted(k) == LogEntries(History[k], "system", "Income Disruption") # {}

\* a year in which career_move backfired and the layoff event struck as well
\* (the income fell below 55% of what the year started from), after an earlier
\* year with an income disruption of its own
C23_Witness ==
    \E k \in 2..Len(History) :
        /\ History[k].event.id = "layoff"
        /\ \E n \in 1..Len(History[k].cardResults) :
              History[k].cardResults[n].card = "career_move" /\ History[k].cardResults[n].ok
        /\ History[k].income * 100 < (IncomeBefore(k) * 55) - 100
        /\ Disrupted(k)
        /\ \E m \in 1..(k - 1) : Disrupted(m)
        /\ ~state.flags.laidOff

\* the step of the run driver is a call of stepYear (every step of a game that
\* does not make a new game is a call of playYear; runSimulation calls it
\* while the loop condition holds)
StepYearCalled ==
    (InGame /\ ~NewGameMade) \/ (driver = "sim" /\ pc = "loop" /\ i < years)

\* the year the run's State was created with
InitialYear == createInitialState(config).year

\* every call of stepYear appends one snapshot, stamped with the year it was
\* entered with, advances the year by one and leaves the earlier snapshots alone
C24_StepAppends ==
    StepYearCalled =>
        /\ Len(state'.history) = Len(state.history) + 1
        /\ SubSeq(state'.history, 1, Len(state.history)) = state.history
        /\ NewSnapshot.year = state.year
        /\ state'.year = state.year + 1

\* the years of the snapshots count up from the initial year
C24_YearsCountUp ==
    /\ \A n \in 1..Len(History) : History[n].year = InitialYear + n - 1
    /\ state.year = InitialYear + Len(History)
    /\ ("year" \notin DOMAIN config /\ Len(History) >= 1) => History[1].year = 1

\* C24: after k calls of stepYear on a State created with initial year y0 and
\* an empty history, history holds exactly k snapshots, the i-th of year
\* y0 + i - 1, state.year is y0 + k and no later call changes an earlier
\* snapshot; from the default State the first snapshot has year 1.
C24_HistoryAndYear == [][C24_StepAppends]_vars /\ []C24_YearsCountUp

\* several years stepped from a State created with a year other than 1
C24_Witness ==
    /\ InitialYear # 1
    /\ Len(History) >= 2
    /\ History[1].year = InitialYear
    /\ History[Len(History)].year = InitialYear + Len(History) - 1

---------------------------------------------------------------------------
(* Ranges kept by the State during a run *)

\* the card-driven flags with the largest value each may take, and the card
\* that raises it
FlagRanges ==
    { <<"emergencyFundBuff", 3, "build_emergency_fund">>,
      <<"autoInvest", 5, "automate_savings">>,
      <<"refiLevel", 2, "debt_refi">>,
      <<"insuranceLevel", 2, "insurance_upgrade">>,
      <<"regretDrag", 3, "panic_sell">>,
      <<"careerMomentum", 5, "skill_sprint">>,
      <<"propertyExposure", 5, "buy_rental">>,
      <<"businessLevel", 5, "start_business">> }

FlagsInRange(flags) ==
    /\ \A f \in FlagRanges : flags[f[1]] >= 0 /\ flags[f[1]] <= f[2]
    /\ DGe(flags.medicalDebt, DZero)

\* C25: starting from createInitialState, after any sequence of card
\* applications, events and year steps the card-driven flags stay in their
\* ranges (emergencyFundBuff 0..3, autoInvest 0..5, refiLevel 0..2,
\* insuranceLevel 0..2, regretDrag 0..3, careerMomentum 0..5,
\* propertyExposure 0..5, businessLevel 0..5) and medicalDebt >= 0.
C25_FlagsInRange ==
    /\ FlagsInRange(state.flags)
    /\ \A n \in 1..Len(History) : FlagsInRange(History[n].flags)

\* a flag stands at its maximum after its card was applied successfully more
\* often than that
C25_Witness ==
    \E f \in FlagRanges :
        /\ state.flags[f[1]] = f[2]
        /\ Cardinality(Successes(f[3])) > f[2]

---------------------------------------------------------------------------
(* Properties of the event stage of a year step *)

\* the ids of the events whose weight is positive for a State
PositiveEvents(s) ==
    {EVENTS[n].id : n \in {m \in 1..Len(EVENTS) : DGt(eventWeight(EVENTS[m].id, s), DZero)}}

\* C26: pickWeightedEvent never selects an event whose weight is <= 0 for the
\* State of the event stage: rental_repair is never applied in a year with
\* rentalUnits = 0, medical_bill never when emergencyFundBuff = 3 and
\* cash >= 4000; the result is null only if no event has a positive weight.
C26_PositiveWeightOnly ==
    [][YearStepped =>
          (\A c \in {AfterCards} :
              LET e == NewSnapshot.event
              IN  /\ e # NullEvent => e.id \in PositiveEvents(c)
                  /\ c.rentalUnits = 0 => e.id # "rental_repair"
                  /\ (c.flags.emergencyFundBuff = 3 /\ DGe(c.cash, USD(4000)))
                        => e.id # "medical_bill"
                  /\ e = NullEvent => PositiveEvents(c) = {})]_vars

\* the year before ended with a full emergency fund and more than 4000 in
\* cash, the cards of the year just stepped left the cash alone, and its event
\* was drawn from the events that still had a positive weight
C26_Witness ==
    /\ Len(History) >= 2
    /\ History[Len(History) - 1].flags.emergencyFundBuff = 3
    /\ History[Len(History) - 1].cash > 4000
    /\ History[Len(History)].chosenCardIds = <<"build_emergency_fund", "build_emergency_fund">>
    /\ History[Len(History)].rentalUnits = 0
    /\ History[Len(History)].event # NullEvent
    /\ History[Len(History)].event.id \notin {"medical_bill", "rental_repair"}

---------------------------------------------------------------------------
(* Money amounts during a run *)

\* C27: from a State whose cash, invested, debt, income and expenses are all
\* >= 0, after every stepYear (any seed, any chosen ids) cash, invested, debt,
\* income, expenses and medicalDebt are >= 0: what cannot be paid from cash
\* zeroes the cash and rolls the rest into debt.
C27_MoneyNonNegative ==
    /\ DGe(state.cash, DZero)
    /\ DGe(state.invested, DZero)
    /\ DGe(state.debt, DZero)
    /\ DGe(state.income, DZero)
    /\ DGe(state.expenses, DZero)
    /\ DGe(state.flags.medicalDebt, DZero)
    /\ \A n \in 1..Len(History) :
          /\ History[n].cash >= 0
          /\ History[n].invested >= 0
          /\ History[n].debt >= 0
          /\ History[n].income >= 0
          /\ History[n].expenses >= 0
          /\ DGe(History[n].flags.medicalDebt, DZero)

\* a year whose expenses could not be paid: the shortfall was rolled into debt
\* and the cash stands at zero; and a year whose medical bill could not be
\* paid from cash
C27_Witness ==
    /\ \E n \in 1..Len(History) :
          /\ HasLog(History[n], "system", "Cash Shortfall")
          /\ History[n].cash = 0
          /\ History[n].debt > 0
    /\ \E n \in 1..Len(History) :
          /\ History[n].event.id = "medical_bill"
          /\ DGt(History[n].flags.medicalDebt, DZero)

---------------------------------------------------------------------------
(* The ledger of unlocked, exhausted and cooling cards during a run *)

\* every cooldown entry belongs to a card with a cooldown and its counter lies
\* between 1 and the card's cooldownYears; every exhausted id is an exhaust
\* card that was applied successfully
C28_LedgerSound ==
    /\ \A id \in DOMAIN state.runMeta.cooldowns :
          /\ id \in CooldownIds
          /\ 1 <= state.runMeta.cooldowns[id]
          /\ state.runMeta.cooldowns[id] <= CardById(id).cooldownYears
    /\ \A id \in state.runMeta.exhausted :
          id \in ExhaustIds /\ Successes(id) # {}

\* no step of the run removes a member of the unlocked or the exhausted set
C28_LedgerGrows ==
    ~NewGameMade =>
    /\ state.runMeta.unlocked \subseteq state'.runMeta.unlocked
    /\ state.runMeta.exhausted \subseteq state'.runMeta.exhausted

\* C28: over any sequence of year steps every entry of the cooldowns map
\* belongs to a card that defines cooldownYears, with a counter c such that
\* 1 <= c <= cooldownYears; the exhausted set holds only exhaust cards that
\* were applied successfully; the unlocked and exhausted sets never lose a
\* member.
C28_LedgerInvariant == []C28_LedgerSound /\ [][C28_LedgerGrows]_vars

\* two years into a run: a counter ticked down to 1 next to a counter just
\* set, and an exhausted card
C28_Witness ==
    /\ Len(History) >= 2
    /\ state.runMeta.exhausted # {}
    /\ \E id \in DOMAIN state.runMeta.cooldowns :
          state.runMeta.cooldowns[id] = 1 /\ CardById(id).cooldownYears > 1
    /\ \E id \in DOMAIN state.runMeta.cooldowns :
          state.runMeta.cooldowns[id] = CardById(id).cooldownYears
    /\ state.runMeta.unlocked = CardIds

---------------------------------------------------------------------------
(* A year stepped with and without a refused card *)

\* the reasons applyCard gives when it refuses a card before running its effect
RefusalReasons == {"Unknown card.", "Card not playable (cooldown/exhaust/requirements)."}

\* the picks of the year just stepped that applyCard refused as ineligible
RefusedPicks ==
    {j \in 1..Len(NewSnapshot.cardResults) :
        ~NewSnapshot.cardResults[j].ok /\ NewSnapshot.cardResults[j].reason \in RefusalReasons}

\* a sequence without its j-th entry
WithoutPick(seq, j) == SubSeq(seq, 1, j - 1) \o SubSeq(seq, j + 1, Len(seq))

\* a snapshot without the fields that name the picks
NumericFields(snap) ==
    [snap EXCEPT !.chosenCardIds = <<>>, !.cardResults = <<>>, !.log = <<>>]

\* a log without its entries of type "card"
NonCardLog(log) == SelectSeq(log, LAMBDA e : e.type # "card")

\* the year just stepped has the same event, market return and numeric
\* snapshot fields, and leaves the generator at the same position, as the year
\* stepped from the same State and generator position with the list ids
YearAlike(ids) ==
    \A y \in {stepYear(state, StepRng, ids)} :
        /\ NumericFields(y.snapshot) = NumericFields(NewSnapshot)
        /\ y.snapshot.event = NewSnapshot.event
        /\ y.snapshot.marketReturn = NewSnapshot.marketReturn
        /\ NonCardLog(y.snapshot.log) = NonCardLog(NewSnapshot.log)
        /\ driver = "sim" => y.g = rng'
        /\ InGame =>
              \A h \in {drawHand(y.s, y.g, DefaultOpts)} :
                  h.g = rng' /\ h.hand = currentHand'

\* C29 as stated: an ineligible card attempt consumes no draw of the shared
\* generator, and the year stepped with that id among the choices is alike the
\* year stepped without that id in the list of choices.
C29_RefusedChoiceLeftOut ==
    [][YearStepped => \A j \in RefusedPicks : YearAlike(WithoutPick(chosen', j))]_vars

\* C29 amended: an ineligible card attempt (unknown id, locked, exhausted,
\* cooling down, requires false) consumes no draw of the shared generator: the
\* year stepped with that id among the at most two picks stepYear plays has
\* the same event, market return and numeric snapshot fields as the year
\* stepped from the same State and generator position with the other pick
\* alone, and leaves the generator at the same position; only chosenCardIds,
\* cardResults and the log differ.
C29_RefusedPickDrawsNothing ==
    [][YearStepped =>
          \A j \in RefusedPicks : YearAlike(WithoutPick(firstTwo(chosen'), j))]_vars

\* a year in which one pick drew from the generator and succeeded and the
\* other was refused
C29_Witness ==
    /\ Len(History) >= 1
    /\ LET snap == History[Len(History)]
       IN  /\ Len(snap.cardResults) = 2
           /\ \E j \in 1..2 :
                 /\ snap.cardResults[j].ok
                 /\ snap.cardResults[j].card \in {"overtime_push", "start_business", "career_move"}
                 /\ ~snap.cardResults[3 - j].ok
                 /\ snap.cardResults[3 - j].reason \in RefusalReasons
           /\ snap.event # NullEvent

---------------------------------------------------------------------------
(* The event of every year *)

EventIds == {EVENTS[n].id : n \in 1..Len(EVENTS)}

\* the log entries of type "event" of a snapshot
EventEntries(snap) == {n \in 1..Len(snap.log) : snap.log[n].type = "event"}

\* the snapshot names one event of the catalog and its log holds exactly one
\* entry of type "event", the entry of that event
OneEvent(snap) ==
    /\ snap.event # NullEvent
    /\ snap.event.id \in EventIds
    /\ Cardinality(EventEntries(snap)) = 1
    /\ \A n \in EventEntries(snap) : snap.log[n].id = snap.event.id

\* the weights that keep the pool of pickWeightedEvent from being empty
AlwaysWeighted(s) ==
    /\ DGe(eventWeight("boring_year", s), USD(10))
    /\ DGe(eventWeight("market_crash", s), USD(4))
    /\ DGe(eventWeight("lucky_break", s), USD(4))

\* C30: every year step applies exactly one event: boring_year (weight >= 10),
\* market_crash and lucky_break (weight >= 4) have a positive weight in every
\* reachable State, so applyEventForYear never returns null, every snapshot's
\* event is non-null and every year's log holds exactly one entry of type
\* "event".
C30_OneEventPerYear ==
    /\ [](AlwaysWeighted(state) /\ \A n \in 1..Len(History) : OneEvent(History[n]))
    /\ [][YearStepped =>
            (\A c \in {AfterCards} :
                AlwaysWeighted(c) /\ PositiveEvents(c) # {})]_vars

\* three years, each with an event of its own
C30_Witness ==
    /\ Len(History) >= 3
    /\ Cardinality({History[n].event.id : n \in 1..Len(History)}) >= 3
    /\ \A n \in 1..Len(History) : Cardinality(EventEntries(History[n])) = 1

=============================================================================
